---- MODULE Spec2Model ----
(***************************************************************************)
(* Audio playback core of the qingsongpiano web piano: the source          *)
(* registry (activeSources), the debounce/dispatch controller, the         *)
(* sample engines and the oscillator engine, as implemented by the three   *)
(* audio managers of the repository:                                       *)
(*   "core"     AudioManager + AudioPlayer + AudioPlaybackController       *)
(*   "legacy"   the self-contained asynchronous AudioManager of audio.js   *)
(*   "fallback" FallbackAudioManager of audio.js                           *)
(* Exactly one of them is window.audioManager in a page.                   *)
(*                                                                         *)
(* The managers are ready (isReady is set by the constructors) and the     *)
(* oscillators are in their default, non-sustained mode.                   *)
(*                                                                         *)
(* Time is the millisecond clock Date.now(), scaled to ticks.  Fields and  *)
(* variables marked "history" are not program state: they record which     *)
(* call created an instance so that properties can refer to it.            *)
(***************************************************************************)
EXTENDS Integers, Sequences, FiniteSets, TLC

\* ------------------------------------------------------------------ bounds
Notes == {"1", "2"}               \* note identifiers (a subset of "1".."19")
MaxTime == 7                      \* last clock tick
MaxCalls == 3                     \* number of calls of the audio API in a run
MaxTouches == 2                   \* touch points on the screen at a time
MaxConcurrentCfg == 2             \* AUDIO_CONFIG.maxConcurrent (40), scaled
DebounceCfg == 2                  \* AUDIO_CONFIG.debounceTime (150 ms), scaled
FadeDelay == 1                    \* stopNote's setTimeout(..., 25), scaled
SafetyDelay == 2                  \* the safety setTimeout of a sample, scaled

Managers == {"core", "legacy", "fallback"}
Methods == {"audioFile", "oscillator", "sprite"}
Timbres == {"audio", "oscillator"}

VARIABLES
  manager,        \* which audio manager class the page uses
  stopThrows,     \* platform: stop() on an already stopped node raises
  now,            \* Date.now()
  ctx,            \* the AudioContext (and with it player/controller) exists
  currentTimbre,  \* AudioManager.currentTimbre
  activeSources,  \* AudioPlayer.activeSources / AudioManager.activeSources
  oscSources,     \* Oscillator.activeSources
  lastPlayTimes,  \* lastPlayTimes[note], 0 when absent
  debounceTime,   \* debounceTime
  maxConcurrent,  \* maxConcurrent
  events,         \* pending callbacks: end events and setTimeout timers
  audioBuffers,   \* audio.js AudioManager.audioBuffers (decoded files)
  pending,        \* audio.js playNote calls suspended at an await (load, resume)
  nseq,           \* history: number of API calls made
  issued,         \* history: ids of the instances registered so far
  lastAccepted,   \* history: time of the last accepted trigger per note
  lastCall,       \* history: the last playNote call and its outcome
  sustainMode,           \* Oscillator.sustainMode
  activeSustainedNotes,  \* Oscillator.activeSustainedNotes
  sustainNodes,          \* the oscillator nodes playSustainedNote created
  sustainCall,           \* history: the last sustained-note call
  sustainToggle,         \* the UI's sustain switch is on
  contextOnly,           \* core: the context exists, player and controller not
  activeTouches,         \* UIController.activeTouches: identifier -> note held
  currentScheme,         \* AudioManager.currentScheme
  notesMap,              \* AudioManager.notesMap: note -> file
  switchResult,          \* history: what the last switchAudioScheme returned
  timbreEvents,          \* history: number of 'timbreChanged' events dispatched
  loaderBuffers,         \* AudioLoader.audioBuffers (files decoded)
  loadedFiles,           \* AudioLoader.loadedFiles
  loadingPromises,       \* AudioLoader.loadingPromises (files being loaded)
  fetching,              \* file -> calls of _fetchAndDecodeAudio not yet settled
  cachedAtSwitch,        \* history: cached at the last switch, not loaded since
  swCaches,              \* service worker: CacheStorage, cache name -> stored URLs
  swLife,                \* service worker: install and activate progress
  swFetches,             \* service worker: the fetch events handled, in order
  osc,                   \* an Oscillator: options, currentPitch, sustainMode,
                         \*   activeSources, activeSustainedNotes
  oscTime,               \* audioContext.currentTime of that oscillator
  oscConfig,             \* window.AudioConfig.NOTE_FREQUENCIES is defined
  oscLast,               \* history: the last call on that oscillator
  oscCalls,              \* history: number of calls on that oscillator
  preload                \* the batch preload: isLoading, the files awaited

\* The state of the sustained notes of an Oscillator.
sustainVars == <<sustainMode, activeSustainedNotes, sustainNodes, sustainCall>>

\* The state of the UI's sustain switch.
toggleVars == <<sustainToggle, contextOnly, activeTouches>>

\* The state of the audio schemes and of the AudioLoader.
schemeVars == <<currentScheme, notesMap, switchResult, timbreEvents,
                loaderBuffers, loadedFiles, loadingPromises, fetching,
                cachedAtSwitch>>

\* The state of the service worker.
swVars == <<swCaches, swLife, swFetches>>

\* The state of the oscillator with its envelope configuration.
envVars == <<osc, oscTime, oscConfig, oscLast, oscCalls>>

\* The state of a batch preload.
preloadVars == <<preload>>

\* The state outside the playback core.
extVars == <<sustainVars, toggleVars, schemeVars, swVars, envVars, preloadVars>>

\* The state of the playback core.
coreVars == <<manager, stopThrows, now, ctx, currentTimbre, activeSources,
              oscSources, lastPlayTimes, debounceTime, maxConcurrent, events,
              audioBuffers, pending, nseq, issued, lastAccepted, lastCall>>

vars == <<coreVars, extVars>>

\* What the actions of one part leave unchanged outside that part.
restOfSustain == <<toggleVars, schemeVars, swVars, envVars, preloadVars>>

restOfToggle == <<schemeVars, swVars, envVars, preloadVars>>

restOfScheme == <<sustainVars, toggleVars, swVars, envVars, preloadVars>>

restOfSw == <<coreVars, sustainVars, toggleVars, schemeVars, envVars,
              preloadVars>>

restOfEnv == <<coreVars, sustainVars, toggleVars, schemeVars, swVars,
               preloadVars>>

restOfPreload == <<sustainVars, toggleVars, swVars, envVars>>

\* ------------------------------------------------ JavaScript Map as sequence
\* A Map iterates in insertion order; set() on an existing key keeps its place.
MapHas(reg, id) == \E i \in 1..Len(reg) : reg[i].id = id

MapGet(reg, id) == reg[CHOOSE i \in 1..Len(reg) : reg[i].id = id]

MapSet(reg, e) ==
  IF MapHas(reg, e.id)
    THEN [i \in 1..Len(reg) |-> IF reg[i].id = e.id THEN e ELSE reg[i]]
    ELSE Append(reg, e)

MapDelete(reg, id) == SelectSeq(reg, LAMBDA e : e.id # id)

Entries(reg) == {reg[i] : i \in 1..Len(reg)}

NoteEntries(reg, n) == {e \in Entries(reg) : e.noteName = n}

\* ------------------------------------------------------------- source ids
\* `${noteName}_${Date.now()}`
FileSourceId(n, t) == <<n, t>>

\* `osc_${noteName}_${Date.now()}_${Math.random()...}`; the random suffix is
\* modelled by a token that is fresh for every call (k is the call number).
OscSourceId(n, t, k) == <<"osc", n, t, k>>

\* An id no instance is ever given.
NoSourceId == FileSourceId("1", 0)

\* ------------------------------------------------------------ the registry
\* cleanupSource(sourceId): absent id -> return; otherwise stop/disconnect the
\* nodes (a raising stop() is caught by the inner try) and delete the entry.
\* stopRaises: the stop() call inside raises.
BadCleanupSource(reg, id, stopRaises) ==
  IF ~MapHas(reg, id) THEN reg
  ELSE IF stopRaises THEN reg ELSE MapDelete(reg, id)

CleanupSource(reg, id, stopRaises) ==
  IF ~MapHas(reg, id) THEN reg ELSE MapDelete(reg, id)

\* Whether stop() raises for the node of entry e: only on a platform that
\* raises on double stop, and only when the node has already ended.
StopRaises(e) == stopThrows /\ e.ended

\* The source nodes cleanupSource(id) stops: the entry's Web Audio source
\* (an HTMLAudioElement has no stop method and keeps playing).
CleanupStops(reg, id) ==
  IF MapHas(reg, id) /\ MapGet(reg, id).gain THEN {MapGet(reg, id).seq} ELSE {}

\* stopOldestSource(): first entry, in iteration order, with the minimum
\* startTime (strict < keeps the earlier of two equal timestamps).
OldestIndex(reg) ==
  CHOOSE i \in 1..Len(reg) :
    /\ \A j \in 1..Len(reg) : reg[j].startTime >= reg[i].startTime
    /\ \A j \in 1..(i - 1) : reg[j].startTime > reg[i].startTime

OldestId(reg) == reg[OldestIndex(reg)].id

StopOldestSource(reg) ==
  IF Len(reg) = 0 THEN reg
  ELSE CleanupSource(reg, OldestId(reg), StopRaises(reg[OldestIndex(reg)]))

StopOldestStops(reg) ==
  IF Len(reg) = 0 THEN {} ELSE CleanupStops(reg, OldestId(reg))

\* stopNote(noteName): an entry with a gain node is faded and cleaned up by a
\* 25 ms timer; an entry without one (HTMLAudioElement) is cleaned up at once.
StopNote(reg, n) ==
  SelectSeq(reg, LAMBDA e : ~(e.noteName = n /\ ~e.gain))

StopNoteTimers(reg, n, t) ==
  {[kind |-> "fade", path |-> e.type, id |-> e.id, seq |-> e.seq,
    due |-> t + FadeDelay] :
     e \in {x \in NoteEntries(reg, n) : x.gain}}

\* The operations stopNote issues on the gain of an entry it fades, in the
\* order of the calls: [op, value in millionths, ms after currentTime].
FadeOps ==
  <<[op |-> "exponentialRampToValueAtTime", value |-> 1000, time |-> 20],
    [op |-> "linearRampToValueAtTime", value |-> 1000, time |-> 30]>>

\* Oscillator.stopNote / Oscillator.cleanupSource work on Oscillator.activeSources
\* and have the same shape as CleanupSource above.

\* The registry after the controller's two preparation steps.
Limit(reg) == IF Len(reg) >= maxConcurrent THEN StopOldestSource(reg) ELSE reg

LimitStops(reg) ==
  IF Len(reg) >= maxConcurrent THEN StopOldestStops(reg) ELSE {}

\* history: seq of the instance evicted by Limit (0 when none), and seq of the
\* first-triggered instance registered at that time.
EvictedSeq(reg) ==
  IF Len(reg) >= maxConcurrent /\ Len(reg) > 0
    THEN reg[OldestIndex(reg)].seq ELSE 0

FirstTriggeredSeq(reg) ==
  IF Len(reg) = 0 THEN 0
  ELSE CHOOSE s \in {e.seq : e \in Entries(reg)} :
         \A e \in Entries(reg) : s <= e.seq

\* ------------------------------------------------------------------ history
\* The call is made less than the debounce window after the previous accepted
\* trigger of the note.
InWindow(n) == lastAccepted[n] # 0 /\ now - lastAccepted[n] < debounceTime

NoCall == [fn |-> "none", inWindow |-> FALSE, gated |-> TRUE,
           engine |-> "none", result |-> "none", evicted |-> 0, first |-> 0]

\* fn: the function called; gated: the debounce and concurrency checks ran
\* before the engine; engine: the engine invoked; result: what was returned;
\* evicted, first: the instance evicted and the first-triggered one (by seq).
Call(fn, n, gated, engine, result, evicted, first) ==
  [fn |-> fn, inWindow |-> InWindow(n), gated |-> gated, engine |-> engine,
   result |-> result, evicted |-> evicted, first |-> first]

Accept(n) == [lastAccepted EXCEPT ![n] = now]

\* A cleanupSource(id) call: the id was registered ("removed"), had been
\* registered before and is gone ("repeated"), or was never issued ("unknown").
CleanupCall(reg, id) ==
  [NoCall EXCEPT !.fn = "cleanupSource",
                 !.result = IF MapHas(reg, id) THEN "removed"
                            ELSE IF id \in issued THEN "repeated" ELSE "unknown"]

\* ---------------------------------------------------------------- entries
FileEntry(n, seq) ==
  [id |-> FileSourceId(n, now), noteName |-> n, startTime |-> now,
   gain |-> FALSE, type |-> "htmlAudio", ended |-> FALSE,
   seq |-> seq, trig |-> now, inWindow |-> InWindow(n)]

OscEntry(n, seq) ==
  [id |-> OscSourceId(n, now, seq), noteName |-> n, startTime |-> now,
   gain |-> TRUE, type |-> "oscillator", ended |-> FALSE,
   seq |-> seq, trig |-> now, inWindow |-> InWindow(n)]

\* audio.js _playAudioBuffer: a buffer source with a gain node, registered
\* under `${noteName}_${Date.now()}` when the (possibly awaited) load is done.
\* p is the suspended call: its number and the history of its trigger.
BufferEntry(p) ==
  [id |-> FileSourceId(p.note, now), noteName |-> p.note, startTime |-> now,
   gain |-> TRUE, type |-> "webAudio", ended |-> FALSE,
   seq |-> p.seq, trig |-> p.trig, inWindow |-> p.inWindow]

\* onended = cleanup: delivered once the node has played to its end (not
\* before the tick after its start) or has been stopped.
EndEvent(e) ==
  [kind |-> "ended", path |-> e.type, id |-> e.id, seq |-> e.seq,
   due |-> e.startTime + 1]

\* setTimeout(cleanup, ...) of a sample instance.
SafetyTimer(e) ==
  [kind |-> "safety", path |-> e.type, id |-> e.id, seq |-> e.seq,
   due |-> e.startTime + SafetyDelay]

\* Stopping a node makes its end event deliverable at once.
EndNow(evs, stops) ==
  {IF ev.kind = "ended" /\ ev.seq \in stops THEN [ev EXCEPT !.due = now] ELSE ev :
     ev \in evs}

\* The cleanup closure of playNoteWithAudioFile: pause, rewind, delete.
FileCleanup(reg, id) == MapDelete(reg, id)

\* The cleanup closure of _playAudioBuffer: source.stop(0), the disconnects
\* and the delete share one try block, so a raising stop() skips the delete.
BufferCleanup(reg, id, stopRaises) ==
  IF stopRaises THEN reg ELSE MapDelete(reg, id)

\* The node of instance seq has played to its end.
NodeEnded(reg, seq) ==
  [i \in 1..Len(reg) |->
     IF reg[i].seq = seq THEN [reg[i] EXCEPT !.ended = TRUE] ELSE reg[i]]

\* ---------------------------------------------------------- sustained notes
ReleaseDelay == 2                 \* options.duration (0.5 s), scaled

\* Names playNote can be called with: the notes, and a name for which
\* getFrequencyForNote finds no frequency.
NoteNames == Notes \cup {"x"}

HasFrequency(n) == n \in Notes

\* `sustain_${noteName}_${Date.now()}`
SustainId(n, t) == <<"sustain", n, t>>

\* The null a call returns instead of an id.
NullId == <<>>

\* activeSustainedNotes is a Map keyed by the note name.
SustainHas(tab, n) == \E i \in 1..Len(tab) : tab[i].noteName = n

SustainGet(tab, n) == tab[CHOOSE i \in 1..Len(tab) : tab[i].noteName = n]

SustainSet(tab, e) ==
  IF SustainHas(tab, e.noteName)
    THEN [i \in 1..Len(tab) |-> IF tab[i].noteName = e.noteName THEN e ELSE tab[i]]
    ELSE Append(tab, e)

SustainDelete(tab, n) == SelectSeq(tab, LAMBDA e : e.noteName # n)

\* history: fn is the method called with note n; had: the table held n at the
\* call; result: the id returned (NullId for null or nothing).
SustainCall(fn, n, had, result) ==
  [fn |-> fn, noteName |-> n, had |-> had, result |-> result]

NoSustainCall == SustainCall("none", "x", FALSE, NullId)

\* new Oscillator(audioContext, options): sustain mode as the options say
\* (off unless given), an empty table.
SustainStart(mode) ==
  /\ sustainMode = mode
  /\ activeSustainedNotes = <<>>
  /\ sustainNodes = <<>>
  /\ sustainCall = NoSustainCall

\* Identifiers of the touch points.
TouchIds == 1..MaxTouches

\* The sustain switch is off and no finger is down when the page is loaded.
ToggleStart ==
  /\ sustainToggle = FALSE
  /\ contextOnly = FALSE
  /\ activeTouches = [t \in TouchIds |-> "none"]

\* ------------------------------------------------------------ audio schemes
Schemes == {"popular", "golden"}

\* Files of the notes map (a subset of a01.mp3 .. a16.mp3).
Files == {"a01", "a02"}

\* AudioConfig.NOTES_MAP: the files of the popular range on the CDN.
NOTES_MAP == [n \in Notes |-> <<"cdn", "a", n>>]

\* audioSchemes[schemeId].notesMap: popular is a01.., golden starts at b01.
audioSchemes ==
  [popular |-> [n \in Notes |-> <<"a", n>>],
   golden |-> [n \in Notes |-> <<"b", n>>]]

\* No scheme is current in the core manager before the first switch; the
\* audio.js manager starts with 'popular'.  new AudioLoader(): nothing loaded.
SchemeStart(scheme) ==
  /\ currentScheme = scheme
  /\ notesMap = IF scheme = "none" THEN NOTES_MAP ELSE audioSchemes[scheme]
  /\ switchResult = "none"
  /\ timbreEvents = 0
  /\ loaderBuffers = {}
  /\ loadedFiles = {}
  /\ loadingPromises = {}
  /\ fetching = [f \in Files |-> 0]
  /\ cachedAtSwitch = {}

\* Property names an object literal inherits from Object.prototype (one of
\* them): audioSchemes[name] is the inherited function, not undefined.
ObjectPrototype == {"constructor"}

\* A notes map that is undefined: no note has a file.
UndefinedMap == [n \in Notes |-> <<>>]

\* The body of switchAudioScheme(schemeId) of the core manager: false when
\* audioSchemes[schemeId] is falsy; otherwise loader.audioBuffers is cleared
\* (if there is a loader) and the scheme and its notes map are made current.
\* For an inherited name the map is undefined and the Object.keys of the
\* following log statement raises, which rejects the promise.
SwitchAudioScheme(s) ==
  IF s \in Schemes
    THEN /\ currentScheme' = s
         /\ notesMap' = audioSchemes[s]
         /\ loaderBuffers' = {}
         /\ cachedAtSwitch' = loaderBuffers
         /\ switchResult' = "true"
    ELSE IF s \in ObjectPrototype
    THEN /\ currentScheme' = s
         /\ notesMap' = UndefinedMap
         /\ loaderBuffers' = {}
         /\ cachedAtSwitch' = loaderBuffers
         /\ switchResult' = "rejected"
    ELSE /\ switchResult' = "false"
         /\ UNCHANGED <<currentScheme, notesMap, loaderBuffers, cachedAtSwitch>>

\* ----------------------------------------------------------- service worker
MaxFetches == 2                   \* number of fetch events in a run

StaticCache == "piano-static-v2.1"

CacheName == "piano-simulator-v2.1"

\* A cache left by an earlier version of the worker.
OldCache == "piano-static-v1.0"

\* STATIC_RESOURCES (a subset).
StaticResources == {"/index.html", "/js/main.js", "/audio/a01.mp3"}

\* A CacheStorage without caches, and a worker that has just been registered.
NoCaches == [n \in {} |-> {}]

\* history: deleted, the names of the caches the worker has deleted.
NewWorker == [phase |-> "parsed", skipWaiting |-> FALSE, logged |-> FALSE,
              pendingDeletes |-> {}, claimed |-> FALSE, deleted |-> {}]

SwStart(storage) ==
  /\ swCaches = storage
  /\ swLife = NewWorker
  /\ swFetches = <<>>

\* ----------------------------------------------- oscillator configuration
\* Times are in milliseconds, levels (volume, sustain level, velocity) in
\* hundredths, gain values in millionths, frequencies in hundredths of a
\* hertz and frequency ratios in ten-thousandths.
MaxOscCalls == 4                  \* number of calls on the oscillator in a run

Velocity == 70                    \* playNote's default velocity, 0.7

Max(a, b) == IF a >= b THEN a ELSE b

Min(a, b) == IF a <= b THEN a ELSE b

\* JavaScript's `v || d` for a number v.
OrDefault(v, d) == IF v = 0 THEN d ELSE v

\* OscillatorManager.defaultOptions.
DefaultOptions ==
  [type |-> "triangle", volume |-> 30, duration |-> 500, attack |-> 10,
   decay |-> 100, sustain |-> 30, release |-> 200]

\* The options an Oscillator keeps of the options it is constructed with.
Constructor(o) ==
  [type |-> o.type,
   volume |-> Max(0, Min(100, OrDefault(o.volume, 30))),
   duration |-> Max(100, OrDefault(o.duration, 500)),
   attack |-> Max(0, OrDefault(o.attack, 10)),
   decay |-> Max(0, OrDefault(o.decay, 100)),
   sustain |-> Max(0, Min(100, OrDefault(o.sustain, 30))),
   release |-> Max(0, OrDefault(o.release, 500))]

\* OscillatorManager.createOscillator(audioContext, id).
NewOscillator ==
  [options |-> Constructor(DefaultOptions), currentPitch |-> "medium",
   sustainMode |-> FALSE, activeSources |-> <<>>,
   activeSustainedNotes |-> <<>>]

\* A note name is its sequence of characters.
Digits == <<"0", "1", "2", "3", "4", "5", "6", "7", "8", "9">>

IsDigit(c) == \E d \in 1..10 : Digits[d] = c

DigitValue(c) == (CHOOSE d \in 1..10 : Digits[d] = c) - 1

\* String(i) for 0 <= i <= 99: the names of AudioConfig.NOTES are
\* NoteName(1) .. NoteName(19).
NoteName(i) ==
  IF i < 10 THEN <<Digits[i + 1]>>
  ELSE <<Digits[(i \div 10) + 1], Digits[(i % 10) + 1]>>

ValidNames == {NoteName(i) : i \in 1..19}

\* parseInt(s): an optional sign and the longest run of digits after it;
\* NaN when there is no digit.
RECURSIVE ParseDigits(_, _)
ParseDigits(s, acc) ==
  IF s = <<>> \/ ~IsDigit(Head(s)) THEN acc
  ELSE ParseDigits(Tail(s), 10 * acc + DigitValue(Head(s)))

ParseInt(s) ==
  LET signed == s # <<>> /\ Head(s) \in {"-", "+"}
      body == IF signed THEN Tail(s) ELSE s
      n == ParseDigits(body, 0)
  IN IF body = <<>> \/ ~IsDigit(Head(body))
       THEN [nan |-> TRUE, value |-> 0]
       ELSE [nan |-> FALSE, value |-> IF signed /\ Head(s) = "-" THEN 0 - n ELSE n]

\* AudioConfig.NOTE_FREQUENCIES.
NOTE_FREQUENCIES ==
  <<26163, 27718, 29366, 31113, 32963, 34923, 36999, 39200, 41530, 44000,
    46616, 49388, 52325, 55437, 58733, 62225, 65925, 69846, 73999>>

BaseFreq == 26163                 \* baseFreq, C4

Semitone == 10595                 \* Math.pow(2, 1 / 12)

\* Math.pow(2, r / 12) for r = 0 .. 11.
TwelfthPowers ==
  <<10000, 10595, 11225, 11892, 12599, 13348, 14142, 14983, 15874, 16818,
    17818, 18877>>

\* Math.pow(2, k / 12) for -12 <= k.
Pow2Twelfths(k) ==
  IF k >= 0 THEN TwelfthPowers[(k % 12) + 1] * 2^(k \div 12)
  ELSE TwelfthPowers[(k % 12) + 1] \div 2

\* The switch on currentPitch: 'low' halves, 'high' doubles.
PitchShift(f, pitch) ==
  CASE pitch = "low" -> f \div 2
    [] pitch = "high" -> f * 2
    [] OTHER -> f

\* Sine and triangle waves are raised by a semitone.
SemitoneUp(f, type) ==
  IF type \in {"sine", "triangle"} THEN (f * Semitone) \div 10000 ELSE f

\* getFrequencyForNote(noteName) of an oscillator with the given pitch and
\* waveform; table: NOTE_FREQUENCIES is defined.  A name that parseInt makes
\* NaN of yields NaN, which is 0 here (both are falsy).
BadGetFrequencyForNote(name, pitch, type, table) ==
  LET noteIndex == ParseInt(name).value - 1 IN
  IF ParseInt(name).nan THEN 0
  ELSE IF table /\ noteIndex >= 0 /\ noteIndex < Len(NOTE_FREQUENCIES)
    THEN SemitoneUp(PitchShift(NOTE_FREQUENCIES[noteIndex + 1], pitch), type)
  ELSE SemitoneUp((PitchShift(BaseFreq, pitch) * Pow2Twelfths(noteIndex % 12)) \div 10000,
                  type)

GetFrequencyForNote(name, pitch, type, table) ==
  LET noteIndex == ParseInt(name).value - 1 IN
  IF ParseInt(name).nan THEN 0
  ELSE IF table /\ noteIndex >= 0 /\ noteIndex < Len(NOTE_FREQUENCIES)
    THEN SemitoneUp(PitchShift(NOTE_FREQUENCIES[noteIndex + 1], pitch), type)
  ELSE SemitoneUp((PitchShift(BaseFreq, pitch) * Pow2Twelfths(noteIndex)) \div 10000,
                  type)

\* One operation on the AudioParam of a gain node.
GainOp(op, value, time) == [op |-> op, value |-> value, time |-> time]

\* applyADSREnvelope(gainParam, peakVolume, options) at time t: the five
\* operations in the order they are issued; 0.001 is 1000 millionths.
ApplyADSREnvelope(peak, o, t) ==
  <<GainOp("setValueAtTime", 0, t),
    GainOp("linearRampToValueAtTime", peak * 100, t + o.attack),
    GainOp("exponentialRampToValueAtTime", peak * o.sustain,
           t + o.attack + o.decay),
    GainOp("setValueAtTime", peak * o.sustain, t + o.duration - o.release),
    GainOp("exponentialRampToValueAtTime", 1000, t + o.duration)>>

\* The Web Audio API raises a RangeError for a negative time and for an
\* exponential ramp to the value 0.
RangeError(g) ==
  \/ g.time < 0
  \/ g.op = "exponentialRampToValueAtTime" /\ g.value = 0

Raises(ops) == \E i \in 1..Len(ops) : RangeError(ops[i])

\* history: the call fn(noteName), what it returned, why it returned null
\* ("frequency", "platform", "RangeError") and the gain operations it issued;
\* for stopSustainedNote, startDuration is options.duration as it was when
\* the stopped note was started.
OscCall(fn, name, result, cause, ops, startDuration) ==
  [fn |-> fn, noteName |-> name, result |-> result, cause |-> cause,
   ops |-> ops, startDuration |-> startDuration]

NoOscCall == OscCall("none", <<>>, NullId, "none", <<>>, 0)

EnvStart(config) ==
  /\ osc = NewOscillator
  /\ oscTime = 0
  /\ oscConfig = config
  /\ oscLast = NoOscCall
  /\ oscCalls = 0

\* ------------------------------------------------------------ batch preload
\* window.audioLoadingState before any preload: the object does not exist.
NoLoadingState ==
  [exists |-> FALSE, isLoading |-> FALSE, progress |-> 0, hasStarted |-> FALSE]

\* isLoading is the flag of the loader (for the audio.js manager: a preload
\* is running); awaited are the files the batch still waits for; phase is
\* where the preload in progress stands: "files" (loading the files),
\* "timers" (the loop of simulated progress) or "idle"; caller is the
\* preloadAll that runs it ("loader", "manager", "legacy"); byLoader: it was
\* started by LoaderManager.setupPreloadWithAudio; count is loadedCount (the
\* loop index for audio.js); sim and simEnd are the last and the final value
\* of the simulated loop; loadingState is window.audioLoadingState.
\* history: batch, the files of the batch; failed, those whose load failed;
\* resolved, the number of preloads that have settled after at least one
\* await on a file or a timer; reports, the values passed to the progress
\* callback of the preload in progress or of the last one; quick, the values
\* passed by the last preloadAll that settled without such an await.
NoPreload ==
  [isLoading |-> FALSE, batch |-> {}, awaited |-> {}, failed |-> {},
   resolved |-> 0, phase |-> "idle", caller |-> "none", byLoader |-> FALSE,
   count |-> 0, sim |-> 0, simEnd |-> 0, reports |-> <<>>, quick |-> <<>>,
   loadingState |-> NoLoadingState]

PreloadStart == preload = NoPreload

\* --------------------------------------------------------------------- Init
Init ==
  /\ manager \in Managers
  \* only the closures of audio.js call stop() outside a try of its own
  /\ stopThrows \in (IF manager = "legacy" THEN BOOLEAN ELSE {FALSE})
  /\ now = 1
  /\ ctx = FALSE
  /\ currentTimbre = IF manager = "fallback" THEN "oscillator" ELSE "audio"
  /\ activeSources = <<>>
  /\ oscSources = <<>>
  /\ lastPlayTimes = [n \in Notes |-> 0]
  /\ debounceTime = DebounceCfg
  /\ maxConcurrent = MaxConcurrentCfg
  /\ events = {}
  /\ audioBuffers = {}
  /\ pending = {}
  /\ nseq = 0
  /\ issued = {}
  /\ lastAccepted = [n \in Notes |-> 0]
  /\ lastCall = NoCall
  /\ SustainStart(FALSE)
  /\ ToggleStart
  /\ SchemeStart(IF manager = "legacy" THEN "popular" ELSE "none")
  /\ EnvStart(TRUE)
  /\ PreloadStart
  /\ SwStart(NoCaches)

\* A call is possible while calls remain, a trigger while its timers can
\* still fire.
CanCall == nseq < MaxCalls

CanTrigger == CanCall /\ now + SafetyDelay <= MaxTime

\* -------------------------------------------------------------------- clock
\* A timer runs within the tick in which it falls due.
TimerDue == \E ev \in events : ev.kind \in {"safety", "fade"} /\ ev.due <= now

Tick ==
  /\ now < MaxTime
  /\ ~TimerDue
  /\ now' = now + 1
  /\ UNCHANGED <<manager, stopThrows, ctx, currentTimbre, activeSources,
                 oscSources, lastPlayTimes, debounceTime, maxConcurrent,
                 events, audioBuffers, pending, nseq, issued,
                 lastAccepted, lastCall>>

\* ensureContext(): creates the AudioContext; the core manager then creates
\* its player, playback controller and loader.
EnsureContext ==
  /\ ~ctx
  /\ ctx' = TRUE
  /\ UNCHANGED <<manager, stopThrows, now, currentTimbre, activeSources,
                 oscSources, lastPlayTimes, debounceTime, maxConcurrent,
                 events, audioBuffers, pending, nseq, issued,
                 lastAccepted, lastCall>>

\* ------------------------------------------------- AudioPlaybackController
\* playNote(noteName, velocity, playbackMethod).  'sprite' reaches
\* AudioPlayer.playNoteFromSprite, whose audioBuffer is never assigned, so it
\* takes the oscillator branch like 'oscillator'.
BadControllerPlayNote(n, method) ==
  LET prev == lastPlayTimes[n]
      seq == nseq + 1
      r1 == Limit(activeSources)
      r2 == StopNote(r1, n)
      stops == LimitStops(activeSources)
      e == IF method = "audioFile" THEN FileEntry(n, seq) ELSE OscEntry(n, seq)
  IN
  /\ nseq' = seq
  /\ IF prev # 0 /\ now - prev < debounceTime
       THEN /\ lastCall' = Call("controller", n, TRUE, "none", "null", 0, 0)
            /\ lastPlayTimes' = [lastPlayTimes EXCEPT ![n] = now]
            /\ UNCHANGED <<activeSources, oscSources, events, issued,
                           lastAccepted>>
       ELSE /\ lastPlayTimes' = [lastPlayTimes EXCEPT ![n] = now]
            /\ lastAccepted' = Accept(n)
            /\ issued' = issued \cup {e.id}
            /\ lastCall' = Call("controller", n, TRUE, e.type, "id",
                                EvictedSeq(activeSources),
                                FirstTriggeredSeq(activeSources))
            /\ IF method = "audioFile"
                 THEN /\ activeSources' = MapSet(r2, e)
                      /\ oscSources' = oscSources
                      /\ events' = EndNow(events, stops)
                                     \cup StopNoteTimers(r1, n, now)
                                     \cup {EndEvent(e), SafetyTimer(e)}
                 ELSE /\ activeSources' = r2
                      /\ oscSources' = MapSet(oscSources, e)
                      /\ events' = EndNow(events, stops)
                                     \cup StopNoteTimers(r1, n, now)
                                     \cup {EndEvent(e)}
  /\ UNCHANGED <<manager, stopThrows, now, ctx, currentTimbre, debounceTime,
                 maxConcurrent, audioBuffers, pending>>

ControllerPlayNote(n, method) ==
  LET prev == lastPlayTimes[n]
      seq == nseq + 1
      r1 == Limit(activeSources)
      r2 == StopNote(r1, n)
      stops == LimitStops(activeSources)
      e == IF method = "audioFile" THEN FileEntry(n, seq) ELSE OscEntry(n, seq)
  IN
  /\ nseq' = seq
  /\ IF prev # 0 /\ now - prev < debounceTime
       THEN /\ lastCall' = Call("controller", n, TRUE, "none", "null", 0, 0)
            /\ UNCHANGED <<activeSources, oscSources, lastPlayTimes, events,
                           issued, lastAccepted>>
       ELSE /\ lastPlayTimes' = [lastPlayTimes EXCEPT ![n] = now]
            /\ lastAccepted' = Accept(n)
            /\ issued' = issued \cup {e.id}
            /\ lastCall' = Call("controller", n, TRUE, e.type, "id",
                                EvictedSeq(activeSources),
                                FirstTriggeredSeq(activeSources))
            /\ IF method = "audioFile"
                 THEN /\ activeSources' = MapSet(r2, e)
                      /\ oscSources' = oscSources
                      /\ events' = EndNow(events, stops)
                                     \cup StopNoteTimers(r1, n, now)
                                     \cup {EndEvent(e), SafetyTimer(e)}
                 ELSE /\ activeSources' = r2
                      /\ oscSources' = MapSet(oscSources, e)
                      /\ events' = EndNow(events, stops)
                                     \cup StopNoteTimers(r1, n, now)
                                     \cup {EndEvent(e)}
  /\ UNCHANGED <<manager, stopThrows, now, ctx, currentTimbre, debounceTime,
                 maxConcurrent, audioBuffers, pending>>

\* A direct call of the controller (it exists once the context exists).
ControllerCall(n, method) ==
  /\ manager = "core" /\ ctx /\ CanTrigger
  /\ ControllerPlayNote(n, method)

\* Oscillator.playNote reached without the controller: AudioManager.
\* playNoteWithOscillator (core) and FallbackAudioManager.playNoteWithOscillator.
OscillatorPlayNote(fn, n) ==
  LET seq == nseq + 1
      e == OscEntry(n, seq)
  IN
  /\ nseq' = seq
  /\ oscSources' = MapSet(oscSources, e)
  /\ events' = events \cup {EndEvent(e)}
  /\ issued' = issued \cup {e.id}
  /\ lastAccepted' = Accept(n)
  /\ lastCall' = Call(fn, n, FALSE, "oscillator", "id", 0, 0)
  /\ UNCHANGED <<activeSources, lastPlayTimes>>

\* A call that reaches no engine and returns null.
NullCall(fn, n) ==
  /\ nseq' = nseq + 1
  /\ lastCall' = Call(fn, n, FALSE, "none", "null", 0, 0)
  /\ UNCHANGED <<activeSources, oscSources, lastPlayTimes, events,
                 issued, lastAccepted>>

\* AudioManager.playNote of the core manager (the UI's entry point).
CorePlayNote(n) ==
  /\ manager = "core" /\ CanTrigger
  /\ IF currentTimbre = "oscillator"
       THEN /\ IF ctx THEN OscillatorPlayNote("core", n) ELSE NullCall("core", n)
            /\ UNCHANGED <<manager, stopThrows, now, ctx, currentTimbre,
                           debounceTime, maxConcurrent, audioBuffers, pending>>
       ELSE IF ~ctx
         THEN /\ NullCall("core", n)
              /\ UNCHANGED <<manager, stopThrows, now, ctx, currentTimbre,
                             debounceTime, maxConcurrent, audioBuffers, pending>>
         ELSE ControllerPlayNote(n, "audioFile")

\* AudioManager.setTimbre / FallbackAudioManager.setTimbre: a timbre other
\* than 'audio', 'golden' and 'oscillator' is refused; otherwise it is made
\* current, the core manager switches to the scheme of 'golden' or 'audio'
\* (the body of switchAudioScheme runs within the call), and the
\* 'timbreChanged' event is dispatched.
SetTimbre(t) ==
  /\ manager \in {"core", "fallback"}
  /\ CanCall
  /\ nseq' = nseq + 1
  /\ IF t \in {"audio", "golden", "oscillator"}
       THEN /\ currentTimbre' = t
            /\ timbreEvents' = timbreEvents + 1
            /\ IF manager = "core" /\ t # "oscillator"
                 THEN SwitchAudioScheme(IF t = "golden" THEN "golden"
                                                        ELSE "popular")
                 ELSE UNCHANGED <<currentScheme, notesMap, switchResult,
                                  loaderBuffers, cachedAtSwitch>>
       ELSE UNCHANGED <<currentTimbre, timbreEvents, currentScheme, notesMap,
                        switchResult, loaderBuffers, cachedAtSwitch>>
  /\ UNCHANGED <<manager, stopThrows, now, ctx, activeSources, oscSources,
                 lastPlayTimes, debounceTime, maxConcurrent, events,
                 audioBuffers, pending, issued,
                 lastAccepted, lastCall, loadedFiles, loadingPromises,
                 fetching>>

\* AudioPlaybackController.setDebounceTime (the UI passes 0 in sustain mode
\* and 150 otherwise).
SetDebounceTime(d) ==
  /\ manager = "core" /\ ctx
  /\ d # debounceTime
  /\ CanCall
  /\ nseq' = nseq + 1
  /\ debounceTime' = d
  /\ UNCHANGED <<manager, stopThrows, now, ctx, currentTimbre, activeSources,
                 oscSources, lastPlayTimes, maxConcurrent, events,
                 audioBuffers, pending, issued,
                 lastAccepted, lastCall>>

\* AudioPlaybackController.setMaxConcurrent.
SetMaxConcurrent(m) ==
  /\ manager = "core" /\ ctx
  /\ m # maxConcurrent
  /\ CanCall
  /\ nseq' = nseq + 1
  /\ maxConcurrent' = m
  /\ UNCHANGED <<manager, stopThrows, now, ctx, currentTimbre, activeSources,
                 oscSources, lastPlayTimes, debounceTime, events,
                 audioBuffers, pending, issued,
                 lastAccepted, lastCall>>

\* ------------------------------------------------------- audio.js AudioManager
\* history: trig, inWindow and evictedNote record the call's trigger and the
\* note of the instance the call evicted ("none" when it evicted nothing).
Suspended(n, seq) ==
  [note |-> n, seq |-> seq, trig |-> now, inWindow |-> InWindow(n),
   evictedNote |-> "none"]

\* The note of the instance with the given seq that the call found registered.
EvictedNote(evicted) ==
  IF evicted = 0 THEN "none"
  ELSE (CHOOSE e \in Entries(activeSources) : e.seq = evicted).noteName

\* playNoteWithOscillator -> _playAudioBuffer on a cache hit (no await is
\* passed, the instance is registered in the same turn); on a cache miss the
\* call suspends at the awaits of the cache lookup, fetch and decode.
\* reg, evs: the registry and the callbacks as the caller left them.
LegacyEngine(n, seq, reg, evs, gated, evicted, first) ==
  LET p == [Suspended(n, seq) EXCEPT !.evictedNote = EvictedNote(evicted)]
      e == BufferEntry(p)
  IN
  /\ lastAccepted' = Accept(n)
  /\ IF n \in audioBuffers
       THEN /\ activeSources' = MapSet(reg, e)
            /\ events' = evs \cup {EndEvent(e), SafetyTimer(e)}
            /\ issued' = issued \cup {e.id}
            /\ pending' = pending
            /\ lastCall' = Call("legacy", n, gated, "webAudio", "id", evicted, first)
       ELSE /\ activeSources' = reg
            /\ events' = evs
            /\ issued' = issued
            /\ pending' = pending \cup {p}
            /\ lastCall' = Call("legacy", n, gated, "webAudio", "pending", evicted, first)

\* AudioManager.playNote of audio.js.  Without an audio context the call goes
\* straight to playNoteWithOscillator (which creates the context) before the
\* debounce check and without recording lastPlayTimes.
LegacyPlayNote(n) ==
  LET prev == lastPlayTimes[n]
      seq == nseq + 1
      r1 == Limit(activeSources)
      r2 == StopNote(r1, n)
      stops == LimitStops(activeSources)
  IN
  /\ manager = "legacy" /\ CanTrigger
  /\ nseq' = seq
  /\ IF ~ctx
       THEN /\ ctx' = TRUE
            /\ LegacyEngine(n, seq, activeSources, events, FALSE, 0, 0)
            /\ UNCHANGED <<lastPlayTimes>>
       ELSE IF prev # 0 /\ now - prev < debounceTime
         THEN /\ lastCall' = Call("legacy", n, TRUE, "none", "null", 0, 0)
              /\ UNCHANGED <<ctx, activeSources, lastPlayTimes, events,
                             issued, lastAccepted, pending>>
         ELSE /\ lastPlayTimes' = [lastPlayTimes EXCEPT ![n] = now]
              /\ ctx' = ctx
              /\ LegacyEngine(n, seq, r2,
                              EndNow(events, stops) \cup StopNoteTimers(r1, n, now),
                              TRUE, EvictedSeq(activeSources),
                              FirstTriggeredSeq(activeSources))
  /\ UNCHANGED <<manager, stopThrows, now, currentTimbre, oscSources,
                 debounceTime, maxConcurrent, audioBuffers>>

\* The awaited load of a suspended call settles: on success the buffer is
\* cached and _playAudioBuffer registers the instance; on failure the call
\* returns null.
LegacyLoadDone(p, ok) ==
  LET e == BufferEntry(p) IN
  /\ p \in pending
  /\ pending' = pending \ {p}
  /\ IF ok
       THEN /\ now + SafetyDelay <= MaxTime
            /\ audioBuffers' = audioBuffers \cup {p.note}
            /\ activeSources' = MapSet(activeSources, e)
            /\ events' = events \cup {EndEvent(e), SafetyTimer(e)}
            /\ issued' = issued \cup {e.id}
       ELSE UNCHANGED <<audioBuffers, activeSources, events, issued>>
  /\ UNCHANGED <<manager, stopThrows, now, ctx, currentTimbre, oscSources,
                 lastPlayTimes, debounceTime, maxConcurrent, nseq, lastAccepted, lastCall>>

\* ------------------------------------------------------ FallbackAudioManager
\* playNote: 'audio' timbre plays an unregistered Audio element; any other
\* timbre makes sure of the context and uses the 'fallback' oscillator.
FallbackPlayNote(n) ==
  /\ manager = "fallback" /\ CanTrigger
  /\ IF currentTimbre = "audio"
       THEN /\ nseq' = nseq + 1
            /\ lastAccepted' = Accept(n)
            /\ lastCall' = Call("fallback", n, FALSE, "htmlAudio", "none", 0, 0)
            /\ UNCHANGED <<ctx, activeSources, oscSources, lastPlayTimes,
                           events, issued>>
       ELSE /\ ctx' = TRUE
            /\ OscillatorPlayNote("fallback", n)
  /\ UNCHANGED <<manager, stopThrows, now, currentTimbre, debounceTime,
                 maxConcurrent, audioBuffers, pending>>

\* ---------------------------------------------------------------- callbacks
\* The end event of an instance is delivered and runs its handler.
EndOfPlayback(ev) ==
  /\ ev \in events /\ ev.kind = "ended" /\ now >= ev.due
  /\ events' = events \ {ev}
  /\ IF ev.path = "oscillator"
       THEN /\ oscSources' = CleanupSource(NodeEnded(oscSources, ev.seq), ev.id,
                                           stopThrows)
            /\ activeSources' = activeSources
       ELSE /\ oscSources' = oscSources
            /\ activeSources' =
                 IF ev.path = "htmlAudio"
                   THEN FileCleanup(activeSources, ev.id)
                   ELSE BufferCleanup(NodeEnded(activeSources, ev.seq), ev.id,
                                      stopThrows)
  /\ UNCHANGED <<manager, stopThrows, now, ctx, currentTimbre, lastPlayTimes,
                 debounceTime, maxConcurrent, audioBuffers, pending, nseq,
                 issued, lastAccepted, lastCall>>

\* The safety timer of a sample instance fires.  The timer is longer than the
\* sample, so a buffer source has ended by then; pausing an Audio element
\* withdraws its end event.
SafetyTimeout(ev) ==
  /\ ev \in events /\ ev.kind = "safety" /\ now >= ev.due
  /\ IF ev.path = "htmlAudio"
       THEN /\ activeSources' = FileCleanup(activeSources, ev.id)
            /\ events' = {x \in events \ {ev} : ~(x.kind = "ended" /\ x.seq = ev.seq)}
       ELSE /\ activeSources' = BufferCleanup(NodeEnded(activeSources, ev.seq),
                                              ev.id, stopThrows)
            /\ events' = EndNow(events \ {ev}, {ev.seq})
  /\ UNCHANGED <<manager, stopThrows, now, ctx, currentTimbre, oscSources,
                 lastPlayTimes, debounceTime, maxConcurrent, audioBuffers,
                 pending, nseq, issued, lastAccepted, lastCall>>

\* cleanupSource(id) on the sample registry, with its effect on the nodes.
RunCleanupSource(id) ==
  LET raises == MapHas(activeSources, id) /\ StopRaises(MapGet(activeSources, id))
  IN
  /\ activeSources' = CleanupSource(activeSources, id, raises)
  /\ UNCHANGED <<manager, stopThrows, now, ctx, currentTimbre, oscSources,
                 lastPlayTimes, debounceTime, maxConcurrent, audioBuffers,
                 pending, issued, lastAccepted>>

\* The 25 ms timer of stopNote fires: cleanupSource(id).
FadeTimeout(ev) ==
  /\ ev \in events /\ ev.kind = "fade" /\ now >= ev.due
  /\ events' = EndNow(events \ {ev}, CleanupStops(activeSources, ev.id))
  /\ UNCHANGED <<nseq, lastCall>>
  /\ RunCleanupSource(ev.id)

\* Ids the sample registry has handed out, and one it never has.
FileIds == {id \in issued : Len(id) = 2} \cup {NoSourceId}

\* cleanupSource(sourceId) called through the manager, with any id.
CleanupSourceCall(id) ==
  /\ \/ manager = "core" /\ ctx
     \/ manager = "legacy"
  /\ CanCall
  /\ nseq' = nseq + 1
  /\ events' = EndNow(events, CleanupStops(activeSources, id))
  /\ lastCall' = CleanupCall(activeSources, id)
  /\ RunCleanupSource(id)

\* Ids an Oscillator has handed out, and one it never has.
OscIds == {id \in issued : Len(id) = 4} \cup {OscSourceId("1", 0, 0)}

\* Oscillator.cleanupSource(sourceId) called with any id.
OscCleanupSourceCall(id) ==
  LET stops == CleanupStops(oscSources, id)
      raises == MapHas(oscSources, id) /\ StopRaises(MapGet(oscSources, id))
  IN
  /\ manager \in {"core", "fallback"} /\ ctx
  /\ CanCall
  /\ nseq' = nseq + 1
  /\ oscSources' = CleanupSource(oscSources, id, raises)
  /\ events' = EndNow(events, stops)
  /\ lastCall' = CleanupCall(oscSources, id)
  /\ UNCHANGED <<manager, stopThrows, now, ctx, currentTimbre, activeSources,
                 lastPlayTimes, debounceTime, maxConcurrent, audioBuffers,
                 pending, issued, lastAccepted>>

\* ------------------------------------------------- Oscillator, sustained notes
\* The playback state an Oscillator method does not touch.
managerVars == <<manager, stopThrows, currentTimbre, lastPlayTimes,
                 debounceTime, maxConcurrent, audioBuffers, pending,
                 activeSources>>

\* playSustainedNote(noteName, velocity, options): a note that is already in
\* the table returns its id; a name without a frequency returns null;
\* otherwise an oscillator node is created, started and entered in the table.
\* The operator yields the table, the nodes and the returned id.
BadPlaySustainedNote(tab, nodes, n, t) ==
  IF ~HasFrequency(n)
    THEN [tab |-> tab, nodes |-> nodes, result |-> NullId]
  ELSE [tab |-> SustainSet(tab, [noteName |-> n, id |-> SustainId(n, t),
                                 node |-> Len(nodes) + 1]),
        nodes |-> Append(nodes, [noteName |-> n, stops |-> 0]),
        result |-> SustainId(n, t)]

PlaySustainedNote(tab, nodes, n, t) ==
  IF SustainHas(tab, n)
    THEN [tab |-> tab, nodes |-> nodes, result |-> SustainGet(tab, n).id]
  ELSE IF ~HasFrequency(n)
    THEN [tab |-> tab, nodes |-> nodes, result |-> NullId]
  ELSE [tab |-> SustainSet(tab, [noteName |-> n, id |-> SustainId(n, t),
                                 node |-> Len(nodes) + 1]),
        nodes |-> Append(nodes, [noteName |-> n, stops |-> 0]),
        result |-> SustainId(n, t)]

\* The timer stopSustainedNote sets for the node of table entry e.
ReleaseTimer(e, t) ==
  [kind |-> "release", path |-> "sustain", id |-> e.id, seq |-> e.node,
   due |-> t + ReleaseDelay]

\* stopSustainedNote(noteName): nothing for a note that is not in the table;
\* otherwise the gain is ramped down, a timer is set that stops the node
\* after the release time, and the entry is deleted.
BadStopSustainedNote(tab, n) == tab

StopSustainedNote(tab, n) == IF SustainHas(tab, n) THEN SustainDelete(tab, n) ELSE tab

BadStopSustainedTimers(tab, n, t) == {}

StopSustainedTimers(tab, n, t) ==
  IF SustainHas(tab, n) THEN {ReleaseTimer(SustainGet(tab, n), t)} ELSE {}

\* Oscillator.playNote(noteName) for the caller fn: in sustain mode
\* playSustainedNote, otherwise a timed oscillator instance; null for a name
\* without a frequency.
OscillatorPlay(fn, n) ==
  LET r == PlaySustainedNote(activeSustainedNotes, sustainNodes, n, now) IN
  IF sustainMode
    THEN /\ nseq' = nseq + 1
         /\ activeSustainedNotes' = r.tab
         /\ sustainNodes' = r.nodes
         /\ sustainCall' = SustainCall("playSustainedNote", n,
                                       SustainHas(activeSustainedNotes, n),
                                       r.result)
         /\ lastCall' = [NoCall EXCEPT !.fn = fn, !.gated = FALSE,
                                       !.engine = "oscillator"]
         /\ UNCHANGED <<oscSources, events, issued, lastAccepted>>
    ELSE /\ IF HasFrequency(n)
              THEN OscillatorPlayNote(fn, n)
              ELSE /\ nseq' = nseq + 1
                   /\ UNCHANGED <<oscSources, events, issued, lastAccepted,
                                  lastCall>>
         /\ sustainCall' = SustainCall("playNote", n, FALSE, NullId)
         /\ UNCHANGED <<activeSustainedNotes, sustainNodes>>

\* Oscillator.playNote called on the instance.
OscPlayNote(n) ==
  /\ CanTrigger
  /\ OscillatorPlay("oscillator", n)
  /\ UNCHANGED <<managerVars, now, ctx, sustainMode>>

\* stopSustainedNote(noteName) called by the UI when a key is released.
StopSustainedNoteCall(n) ==
  /\ CanCall
  /\ nseq' = nseq + 1
  /\ activeSustainedNotes' = StopSustainedNote(activeSustainedNotes, n)
  /\ events' = events \cup StopSustainedTimers(activeSustainedNotes, n, now)
  /\ sustainCall' = SustainCall("stopSustainedNote", n,
                                SustainHas(activeSustainedNotes, n), NullId)
  /\ UNCHANGED <<managerVars, now, ctx, oscSources, issued, lastAccepted,
                 lastCall, sustainMode, sustainNodes>>

\* stopAllSustainedNotes(): stopSustainedNote for every key, then clear().
StopAllSustainedNotes ==
  /\ CanCall
  /\ nseq' = nseq + 1
  /\ activeSustainedNotes' = <<>>
  /\ events' = events \cup
       UNION {StopSustainedTimers(activeSustainedNotes, n, now) : n \in NoteNames}
  /\ sustainCall' = SustainCall("stopAllSustainedNotes", "x",
                                activeSustainedNotes # <<>>, NullId)
  /\ UNCHANGED <<managerVars, now, ctx, oscSources, issued, lastAccepted,
                 lastCall, sustainMode, sustainNodes>>

\* The UI's sustain toggle sets Oscillator.sustainMode; switching it off stops
\* every sustained note.
SetSustainMode(b) ==
  /\ b # sustainMode
  /\ CanCall
  /\ nseq' = nseq + 1
  /\ sustainMode' = b
  /\ IF b
       THEN UNCHANGED <<activeSustainedNotes, events>>
       ELSE /\ activeSustainedNotes' = <<>>
            /\ events' = events \cup
                 UNION {StopSustainedTimers(activeSustainedNotes, n, now) :
                          n \in NoteNames}
  /\ sustainCall' = SustainCall("sustainMode", "x", FALSE, NullId)
  /\ UNCHANGED <<managerVars, now, ctx, oscSources, issued, lastAccepted,
                 lastCall, sustainNodes>>

\* The release timer of a node fires: oscillator.stop() and the disconnects.
ReleaseTimeout(ev) ==
  /\ ev \in events /\ ev.kind = "release" /\ now >= ev.due
  /\ events' = events \ {ev}
  /\ sustainNodes' = [sustainNodes EXCEPT ![ev.seq].stops = @ + 1]
  /\ UNCHANGED <<managerVars, now, ctx, oscSources, nseq, issued, lastAccepted,
                 lastCall, sustainMode, activeSustainedNotes, sustainCall>>

\* An Oscillator on an existing audio context.
SustainInit ==
  /\ manager = "core"
  /\ stopThrows = FALSE
  /\ now = 1
  /\ ctx = TRUE
  /\ currentTimbre = "oscillator"
  /\ activeSources = <<>>
  /\ oscSources = <<>>
  /\ lastPlayTimes = [n \in Notes |-> 0]
  /\ debounceTime = DebounceCfg
  /\ maxConcurrent = MaxConcurrentCfg
  /\ events = {}
  /\ audioBuffers = {}
  /\ pending = {}
  /\ nseq = 0
  /\ issued = {}
  /\ lastAccepted = [n \in Notes |-> 0]
  /\ lastCall = NoCall
  /\ \E mode \in BOOLEAN : SustainStart(mode)
  /\ ToggleStart
  /\ SchemeStart("none")
  /\ EnvStart(TRUE)
  /\ PreloadStart
  /\ SwStart(NoCaches)

SustainNext ==
  \/ Tick /\ UNCHANGED extVars
  \/ \E n \in NoteNames : OscPlayNote(n) /\ UNCHANGED restOfSustain
  \/ \E n \in NoteNames : StopSustainedNoteCall(n) /\ UNCHANGED restOfSustain
  \/ StopAllSustainedNotes /\ UNCHANGED restOfSustain
  \/ \E b \in BOOLEAN : SetSustainMode(b) /\ UNCHANGED restOfSustain
  \/ \E ev \in events : ReleaseTimeout(ev) /\ UNCHANGED restOfSustain
  \/ \E ev \in events : EndOfPlayback(ev) /\ UNCHANGED extVars

SustainSpec == SustainInit /\ [][SustainNext]_vars

\* The clock advances and the release timers fire.
SustainFairSpec ==
  /\ SustainSpec
  /\ WF_vars(Tick /\ UNCHANGED extVars)
  /\ WF_vars(\E ev \in events : ReleaseTimeout(ev) /\ UNCHANGED restOfSustain)

\* ------------------------------------------------------ the sustain switch
\* The release timers that stopping every sustained note sets.
StopAllTimers(tab, t) == UNION {StopSustainedTimers(tab, n, t) : n \in NoteNames}

\* handleSustainToggle(isEnabled).  ensureAudioContextForSustainMode asks the
\* contextManager (only the core manager has one) for a context, which does
\* not create the manager's player and controller.  The oscillators that
\* exist, or that createOscillatorInstance can create on an existing context,
\* get sustainMode = isEnabled; switching off stops every sustained note.
\* updateDebounceForSustainMode sets the debounce window of
\* audioManager.playbackController, if there is one, to 0 or back to 150 ms.
HandleSustainToggle(b) ==
  /\ b # sustainToggle
  /\ CanCall
  /\ nseq' = nseq + 1
  /\ sustainToggle' = b
  /\ contextOnly' = IF manager = "core" /\ ~ctx THEN TRUE ELSE contextOnly
  /\ activeTouches' = activeTouches
  /\ sustainMode' = IF manager = "core" \/ ctx THEN b ELSE sustainMode
  /\ IF b
       THEN UNCHANGED <<activeSustainedNotes, events>>
       ELSE /\ activeSustainedNotes' = <<>>
            /\ events' = events \cup StopAllTimers(activeSustainedNotes, now)
  /\ debounceTime' = IF manager = "core" /\ ctx
                       THEN (IF b THEN 0 ELSE DebounceCfg)
                       ELSE debounceTime
  /\ lastCall' = [NoCall EXCEPT !.fn = "sustainToggle"]
  /\ sustainCall' = SustainCall("sustainMode", "x", FALSE, NullId)
  /\ UNCHANGED <<manager, stopThrows, now, ctx, currentTimbre, activeSources,
                 oscSources, lastPlayTimes, maxConcurrent, audioBuffers,
                 pending, issued, lastAccepted, sustainNodes>>

\* AudioManager.ensureContext of the core manager creates the player and the
\* controller (with the default debounce window) when they are missing.
ToggleEnsureContext ==
  /\ EnsureContext
  /\ contextOnly' = FALSE
  /\ UNCHANGED <<sustainVars, sustainToggle, activeTouches>>

\* AudioManager.playNote of the core manager with the Oscillator's modes: the
\* oscillator timbre plays through the 'audio-core' Oscillator once a context
\* exists; the audio timbre goes to the controller, and returns null while
\* the context has no player.
CorePlayWithModes(n) ==
  /\ manager = "core" /\ CanTrigger
  /\ IF currentTimbre = "oscillator" /\ (ctx \/ contextOnly)
       THEN /\ OscillatorPlay("core", n)
            /\ UNCHANGED <<managerVars, now, ctx, sustainMode>>
       ELSE IF currentTimbre = "audio" /\ ctx
         THEN /\ ControllerPlayNote(n, "audioFile")
              /\ UNCHANGED sustainVars
         ELSE /\ NullCall("core", n)
              /\ UNCHANGED <<manager, stopThrows, now, ctx, currentTimbre,
                             debounceTime, maxConcurrent, audioBuffers, pending,
                             sustainVars>>

ToggleCorePlayNote(n) == CorePlayWithModes(n) /\ UNCHANGED toggleVars

\* FallbackAudioManager.playNote with the Oscillator's modes.
ToggleFallbackPlayNote(n) ==
  /\ IF currentTimbre = "audio"
       THEN /\ FallbackPlayNote(n)
            /\ UNCHANGED sustainVars
       ELSE /\ manager = "fallback" /\ CanTrigger
            /\ ctx' = TRUE
            /\ OscillatorPlay("fallback", n)
            /\ UNCHANGED <<managerVars, now, sustainMode>>
  /\ UNCHANGED toggleVars

\* A page with the sustain switch: the timbre is the one chosen at start-up.
ToggleInit ==
  /\ manager \in Managers
  /\ stopThrows = FALSE
  /\ now = 1
  /\ ctx = FALSE
  /\ currentTimbre \in (IF manager = "legacy" THEN {"audio"} ELSE Timbres)
  /\ activeSources = <<>>
  /\ oscSources = <<>>
  /\ lastPlayTimes = [n \in Notes |-> 0]
  /\ debounceTime = DebounceCfg
  /\ maxConcurrent = MaxConcurrentCfg
  /\ events = {}
  /\ audioBuffers = {}
  /\ pending = {}
  /\ nseq = 0
  /\ issued = {}
  /\ lastAccepted = [n \in Notes |-> 0]
  /\ lastCall = NoCall
  /\ SustainStart(FALSE)
  /\ ToggleStart
  /\ SchemeStart(IF manager = "legacy" THEN "popular" ELSE "none")
  /\ EnvStart(TRUE)
  /\ PreloadStart
  /\ SwStart(NoCaches)

ToggleNext ==
  \/ Tick /\ UNCHANGED extVars
  \/ ToggleEnsureContext /\ UNCHANGED restOfToggle
  \/ \E b \in BOOLEAN : HandleSustainToggle(b) /\ UNCHANGED restOfToggle
  \/ \E n \in Notes : ToggleCorePlayNote(n) /\ UNCHANGED restOfToggle
  \/ \E n \in Notes : ToggleFallbackPlayNote(n) /\ UNCHANGED restOfToggle
  \/ \E n \in Notes : LegacyPlayNote(n) /\ UNCHANGED extVars
  \/ \E p \in pending, ok \in BOOLEAN : LegacyLoadDone(p, ok) /\ UNCHANGED extVars
  \/ \E n \in Notes : StopSustainedNoteCall(n) /\ UNCHANGED restOfSustain
  \/ \E ev \in events : ReleaseTimeout(ev) /\ UNCHANGED restOfSustain
  \/ \E ev \in events : EndOfPlayback(ev) /\ UNCHANGED extVars
  \/ \E ev \in events : SafetyTimeout(ev) /\ UNCHANGED extVars
  \/ \E ev \in events : FadeTimeout(ev) /\ UNCHANGED extVars

ToggleSpec == ToggleInit /\ [][ToggleNext]_vars

\* ------------------------------------------------------------ touch handlers
\* FallbackAudioManager.playNote(note) with the oscillator timbre:
\* playNoteWithOscillator awaits ensureContext(), which creates the context
\* and, when its state is 'suspended', awaits resume().  slow: the context
\* is suspended, so the call is parked at that await; otherwise the
\* 'fallback' Oscillator plays before any other event is handled.
FallbackTouchPlay(n, slow) ==
  /\ manager = "fallback" /\ CanTrigger
  /\ ctx' = TRUE
  /\ IF slow
       THEN /\ nseq' = nseq + 1
            /\ pending' = pending \cup {[fn |-> "fallback", note |-> n,
                                         seq |-> nseq + 1]}
            /\ UNCHANGED <<oscSources, events, issued, lastAccepted, lastCall,
                           activeSustainedNotes, sustainNodes, sustainCall>>
       ELSE /\ OscillatorPlay("fallback", n)
            /\ pending' = pending
  /\ UNCHANGED <<manager, stopThrows, now, currentTimbre, lastPlayTimes,
                 debounceTime, maxConcurrent, audioBuffers, activeSources,
                 sustainMode>>

\* UIController.playNote(note): audioManager.playNote(note).
UiPlayNote(n, slow) ==
  \/ ~slow /\ CorePlayWithModes(n)
  \/ FallbackTouchPlay(n, slow)

\* resume() of a parked call settles: the oscillator plays the note, in the
\* mode it has now, or (resume rejected) the call returns without playing.
FallbackResumed(p, ok) ==
  /\ manager = "fallback"
  /\ p \in pending
  /\ pending' = pending \ {p}
  /\ IF ok
       THEN /\ now + SafetyDelay <= MaxTime
            /\ OscillatorPlay("fallback", p.note)
       ELSE UNCHANGED <<nseq, oscSources, events, issued, lastAccepted,
                        lastCall, activeSustainedNotes, sustainNodes,
                        sustainCall>>
  /\ UNCHANGED <<manager, stopThrows, now, ctx, currentTimbre, lastPlayTimes,
                 debounceTime, maxConcurrent, audioBuffers, activeSources,
                 sustainMode, toggleVars>>

\* The end of a hold on note n: with the sustain switch on,
\* UIController.stopSustainedNote(n), which calls stopSustainedNote(n) of
\* every Oscillator; otherwise releaseNote(n), which only changes the key's
\* look.
UiRelease(n) ==
  /\ IF sustainToggle
       THEN /\ activeSustainedNotes' = StopSustainedNote(activeSustainedNotes, n)
            /\ events' = events \cup StopSustainedTimers(activeSustainedNotes, n, now)
            /\ sustainCall' = SustainCall("stopSustainedNote", n,
                                          SustainHas(activeSustainedNotes, n),
                                          NullId)
       ELSE UNCHANGED <<activeSustainedNotes, events, sustainCall>>
  /\ UNCHANGED <<managerVars, now, ctx, oscSources, nseq, issued,
                 lastAccepted, lastCall, sustainMode, sustainNodes>>

\* handleTouchStart for one touch on the key of note n: the note is played
\* and the touch recorded.
HandleTouchStart(t, n, slow) ==
  /\ activeTouches[t] = "none"
  /\ UiPlayNote(n, slow)
  /\ activeTouches' = [activeTouches EXCEPT ![t] = n]
  /\ UNCHANGED <<sustainToggle, contextOnly>>

\* handleTouchEnd for one touch: the note it held is released and the touch
\* forgotten.
HandleTouchEnd(t) ==
  /\ activeTouches[t] # "none"
  /\ UiRelease(activeTouches[t])
  /\ activeTouches' = [activeTouches EXCEPT ![t] = "none"]
  /\ UNCHANGED <<sustainToggle, contextOnly>>

\* The 'fallback' or 'audio-core' Oscillator plays n in sustain mode and
\* the hold on prev is released after it, within one handler.
PlayThenRelease(fn, n, prev) ==
  LET r == PlaySustainedNote(activeSustainedNotes, sustainNodes, n, now) IN
  /\ nseq' = nseq + 1
  /\ sustainNodes' = r.nodes
  /\ activeSustainedNotes' =
       IF sustainToggle THEN StopSustainedNote(r.tab, prev) ELSE r.tab
  /\ events' = events \cup
       (IF sustainToggle THEN StopSustainedTimers(r.tab, prev, now) ELSE {})
  /\ sustainCall' =
       IF sustainToggle
         THEN SustainCall("stopSustainedNote", prev, SustainHas(r.tab, prev),
                          NullId)
         ELSE SustainCall("playSustainedNote", n,
                          SustainHas(activeSustainedNotes, n), r.result)
  /\ lastCall' = [NoCall EXCEPT !.fn = fn, !.gated = FALSE,
                                !.engine = "oscillator"]
  /\ UNCHANGED <<oscSources, issued, lastAccepted>>

\* handleTouchMove for one touch, now over the key of note n or over no key
\* ("none"): over another key than before, that note is played and then the
\* one held before is released; over a key with no touch recorded, as in
\* handleTouchStart; over the same key, nothing; off the keys, as in
\* handleTouchEnd.
HandleTouchMove(t, n, slow) ==
  LET prev == activeTouches[t]
      plays == IF manager = "core"
                 THEN currentTimbre = "oscillator" /\ (ctx \/ contextOnly)
                 ELSE ~slow
  IN
  /\ IF n = "none"
       THEN /\ prev # "none"
            /\ ~slow
            /\ UiRelease(prev)
       ELSE IF prev = "none"
       THEN UiPlayNote(n, slow)
       ELSE /\ n # prev
            /\ IF sustainMode /\ plays
                 THEN /\ manager \in {"core", "fallback"} /\ CanTrigger
                      /\ manager = "core" => ~slow
                      /\ PlayThenRelease(manager, n, prev)
                      /\ ctx' = (ctx \/ manager = "fallback")
                      /\ UNCHANGED <<manager, stopThrows, now, currentTimbre,
                                     lastPlayTimes, debounceTime, maxConcurrent,
                                     audioBuffers, pending, activeSources,
                                     sustainMode>>
                 ELSE /\ ~SustainHas(activeSustainedNotes, prev) \/ slow
                      /\ IF slow
                           THEN /\ manager = "fallback" /\ CanTrigger
                                /\ ctx' = TRUE
                                /\ nseq' = nseq + 1
                                /\ pending' = pending \cup
                                     {[fn |-> "fallback", note |-> n,
                                       seq |-> nseq + 1]}
                                /\ IF sustainToggle
                                     THEN /\ activeSustainedNotes' =
                                               StopSustainedNote(activeSustainedNotes, prev)
                                          /\ events' = events \cup
                                               StopSustainedTimers(activeSustainedNotes, prev, now)
                                     ELSE UNCHANGED <<activeSustainedNotes, events>>
                                /\ UNCHANGED <<manager, stopThrows, now,
                                               currentTimbre, lastPlayTimes,
                                               debounceTime, maxConcurrent,
                                               audioBuffers, activeSources,
                                               sustainMode, oscSources, issued,
                                               lastAccepted, lastCall,
                                               sustainNodes, sustainCall>>
                           ELSE UiPlayNote(n, slow)
  /\ activeTouches' = [activeTouches EXCEPT ![t] = n]
  /\ UNCHANGED <<sustainToggle, contextOnly>>

\* ------------------------------------------- scheme switch and AudioLoader
\* The playback state the loader and the scheme switch do not touch.
playbackVars == <<manager, stopThrows, now, ctx, currentTimbre, activeSources,
                  oscSources, lastPlayTimes, debounceTime, maxConcurrent,
                  events, pending, issued, lastAccepted, lastCall>>

\* AudioLoader.loadAudioFile(filePath): returns at once for a file in
\* loadedFiles, joins a load in progress, and otherwise starts
\* _fetchAndDecodeAudio.  The loader exists once the context does.
BadLoadAudioFile(f) ==
  /\ manager = "core" /\ ctx
  /\ CanCall
  /\ nseq' = nseq + 1
  /\ loadingPromises' = IF f \in loadedFiles THEN loadingPromises
                        ELSE loadingPromises \cup {f}
  /\ fetching' = IF f \in loadedFiles THEN fetching
                 ELSE [fetching EXCEPT ![f] = @ + 1]
  /\ cachedAtSwitch' = cachedAtSwitch \ {f}
  /\ UNCHANGED <<playbackVars, audioBuffers, currentScheme, notesMap,
                 switchResult, timbreEvents, loaderBuffers, loadedFiles>>

LoadAudioFile(f) ==
  /\ manager = "core" /\ ctx
  /\ CanCall
  /\ nseq' = nseq + 1
  /\ loadingPromises' = IF f \in loadedFiles THEN loadingPromises
                        ELSE loadingPromises \cup {f}
  /\ fetching' = IF f \in loadedFiles \cup loadingPromises THEN fetching
                 ELSE [fetching EXCEPT ![f] = @ + 1]
  /\ cachedAtSwitch' = cachedAtSwitch \ {f}
  /\ UNCHANGED <<playbackVars, audioBuffers, currentScheme, notesMap,
                 switchResult, timbreEvents, loaderBuffers, loadedFiles>>

\* A call of _fetchAndDecodeAudio settles: on success the decoded buffer is
\* stored and the file is entered in loadedFiles; the continuation of
\* loadAudioFile deletes the entry of the file in loadingPromises either way.
FetchAndDecodeDone(f, ok) ==
  /\ fetching[f] > 0
  /\ fetching' = [fetching EXCEPT ![f] = @ - 1]
  /\ loadingPromises' = loadingPromises \ {f}
  /\ loaderBuffers' = IF ok THEN loaderBuffers \cup {f} ELSE loaderBuffers
  /\ loadedFiles' = IF ok THEN loadedFiles \cup {f} ELSE loadedFiles
  /\ UNCHANGED <<playbackVars, audioBuffers, nseq, currentScheme, notesMap,
                 switchResult, timbreEvents, cachedAtSwitch>>

\* switchAudioScheme(schemeId) of the core manager: false for an unknown
\* scheme; otherwise loader.audioBuffers is cleared (if there is a loader) and
\* the scheme and its notes map are made current.
CoreSwitchAudioScheme(s) ==
  /\ manager = "core"
  /\ CanCall
  /\ nseq' = nseq + 1
  /\ SwitchAudioScheme(s)
  /\ UNCHANGED <<playbackVars, audioBuffers, timbreEvents, loadedFiles,
                 loadingPromises, fetching>>

\* switchAudioScheme(schemeId) of the audio.js manager: false when
\* this.audioSchemes[schemeId] is falsy; otherwise audioBuffers is cleared and
\* the scheme made current, as in the core manager.
LegacySwitchAudioScheme(s) ==
  /\ manager = "legacy"
  /\ CanCall
  /\ nseq' = nseq + 1
  /\ IF s \in Schemes
       THEN /\ currentScheme' = s
            /\ notesMap' = audioSchemes[s]
            /\ audioBuffers' = {}
            /\ cachedAtSwitch' = audioBuffers
            /\ switchResult' = "true"
       ELSE IF s \in ObjectPrototype
       THEN /\ currentScheme' = s
            /\ notesMap' = UndefinedMap
            /\ audioBuffers' = {}
            /\ cachedAtSwitch' = audioBuffers
            /\ switchResult' = "rejected"
       ELSE /\ switchResult' = "false"
            /\ UNCHANGED <<currentScheme, notesMap, audioBuffers, cachedAtSwitch>>
  /\ UNCHANGED <<playbackVars, timbreEvents, loaderBuffers, loadedFiles,
                 loadingPromises, fetching>>

\* Scheme ids that are no scheme.
UnknownSchemes == {"unknown"} \cup ObjectPrototype

\* A manager that supports audio schemes.
SchemeInit ==
  /\ manager \in {"core", "legacy"}
  /\ stopThrows = FALSE
  /\ now = 1
  /\ ctx = FALSE
  /\ currentTimbre = "audio"
  /\ activeSources = <<>>
  /\ oscSources = <<>>
  /\ lastPlayTimes = [n \in Notes |-> 0]
  /\ debounceTime = DebounceCfg
  /\ maxConcurrent = MaxConcurrentCfg
  /\ events = {}
  /\ audioBuffers = {}
  /\ pending = {}
  /\ nseq = 0
  /\ issued = {}
  /\ lastAccepted = [n \in Notes |-> 0]
  /\ lastCall = NoCall
  /\ SustainStart(FALSE)
  /\ ToggleStart
  /\ SchemeStart(IF manager = "legacy" THEN "popular" ELSE "none")
  /\ EnvStart(TRUE)
  /\ PreloadStart
  /\ SwStart(NoCaches)

SchemeNext ==
  \/ Tick /\ UNCHANGED extVars
  \/ EnsureContext /\ UNCHANGED extVars
  \/ \E f \in Files : LoadAudioFile(f) /\ UNCHANGED restOfScheme
  \/ \E f \in Files, ok \in BOOLEAN :
       FetchAndDecodeDone(f, ok) /\ UNCHANGED restOfScheme
  \/ \E s \in Schemes \cup UnknownSchemes :
       CoreSwitchAudioScheme(s) /\ UNCHANGED restOfScheme
  \/ \E s \in Schemes \cup UnknownSchemes :
       LegacySwitchAudioScheme(s) /\ UNCHANGED restOfScheme
  \/ \E n \in Notes :
       /\ LegacyPlayNote(n)
       /\ cachedAtSwitch' = cachedAtSwitch \ {n}
       /\ UNCHANGED <<restOfScheme, currentScheme, notesMap, switchResult,
                      timbreEvents,
                      loaderBuffers, loadedFiles, loadingPromises,
                      fetching>>
  \/ \E p \in pending, ok \in BOOLEAN : LegacyLoadDone(p, ok) /\ UNCHANGED extVars
  \/ \E ev \in events : EndOfPlayback(ev) /\ UNCHANGED extVars
  \/ \E ev \in events : SafetyTimeout(ev) /\ UNCHANGED extVars
  \/ \E ev \in events : FadeTimeout(ev) /\ UNCHANGED extVars

SchemeSpec == SchemeInit /\ [][SchemeNext]_vars

\* The timbre and scheme switches of a page, with the loads of the loader.
TimbreNext ==
  \/ EnsureContext /\ UNCHANGED extVars
  \/ \E t \in {"audio", "golden", "oscillator", "piano"} :
       SetTimbre(t) /\ UNCHANGED restOfScheme
  \/ \E s \in Schemes \cup UnknownSchemes :
       CoreSwitchAudioScheme(s) /\ UNCHANGED restOfScheme
  \/ \E s \in Schemes \cup UnknownSchemes :
       LegacySwitchAudioScheme(s) /\ UNCHANGED restOfScheme
  \/ \E f \in Files : LoadAudioFile(f) /\ UNCHANGED restOfScheme
  \/ \E f \in Files, ok \in BOOLEAN :
       FetchAndDecodeDone(f, ok) /\ UNCHANGED restOfScheme

TimbreSpec == Init /\ [][TimbreNext]_vars

\* ----------------------------------------------------- service worker (sw.js)
\* The requests of the model: a page, the cached page, a script, an audio
\* file with and without a query string, and a browser-extension URL.
Urls == {"/index.html", "/about.html", "/js/main.js", "/audio/a01.mp3",
         "/audio/a01.mp3?v=2", "chrome-extension://x/y.js"}

HttpMethods == {"GET", "POST"}

\* new URL(event.request.url).pathname
Pathname(u) == IF u = "/audio/a01.mp3?v=2" THEN "/audio/a01.mp3" ELSE u

\* url.pathname.includes('/audio/')
IsAudioFile(u) == Pathname(u) = "/audio/a01.mp3"

\* event.request.url.includes('.html')
HasHtml(u) == u \in {"/index.html", "/about.html"}

\* The handler returns before respondWith for a request that is not a GET or
\* whose URL starts with chrome-extension: or safari-extension:.
BadIntercepted(u, m) == u # "chrome-extension://x/y.js"

Intercepted(u, m) == m = "GET" /\ u # "chrome-extension://x/y.js"

\* What fetch(event.request) settles with: a response, or a rejection
\* (written as the network-error response).
NetworkFailure == [status |-> 0, type |-> "error"]

NoResponse == [status |-> 0, type |-> "none"]

NetResponses == {[status |-> 200, type |-> "basic"],
                 [status |-> 404, type |-> "basic"],
                 [status |-> 200, type |-> "cors"],
                 NetworkFailure}

\* !response || response.status !== 200 || response.type !== 'basic' -> unstored
Storable(r) == r.status = 200 /\ r.type = "basic"

\* caches.match(request, {ignoreSearch: false}): any cache, the whole URL.
CachesMatch(st, u) == \E n \in DOMAIN st : u \in st[n]

\* caches.open(name) creates the cache when it is missing.
CachesOpen(st, name) ==
  IF name \in DOMAIN st THEN st
  ELSE [n \in DOMAIN st \cup {name} |-> IF n = name THEN {} ELSE st[n]]

\* cache.match(url) on the cache called name.
CacheMatch(st, name, u) == name \in DOMAIN st /\ u \in st[name]

\* cache.put(request, response) / cache.addAll(urls) on the cache called name.
BadCachePut(st, name, us) == CachesOpen(st, name)

CachePut(st, name, us) ==
  [CachesOpen(st, name) EXCEPT ![name] = @ \cup us]

CachesDelete(st, name) == [n \in DOMAIN st \ {name} |-> st[n]]

\* The activate handler keeps the two caches of the current version.
BadStale(name) == name # StaticCache

Stale(name) == name # StaticCache /\ name # CacheName

\* install: caches.open(STATIC_CACHE), then cache.addAll(STATIC_RESOURCES),
\* whose failure is caught and logged, then self.skipWaiting().  A failure of
\* caches.open is not caught: neither of the two `then` callbacks runs.
InstallEvent ==
  /\ swLife.phase = "parsed"
  /\ swLife' = [swLife EXCEPT !.phase = "opening"]
  /\ UNCHANGED <<swCaches, swFetches>>

OpenDone(ok) ==
  /\ swLife.phase = "opening"
  /\ swLife' = [swLife EXCEPT !.phase = IF ok THEN "adding" ELSE "failed"]
  /\ swCaches' = IF ok THEN CachesOpen(swCaches, StaticCache) ELSE swCaches
  /\ UNCHANGED swFetches

\* addAll stores all resources or none.
AddAllDone(ok) ==
  /\ swLife.phase = "adding"
  /\ swCaches' = IF ok THEN CachePut(swCaches, StaticCache, StaticResources)
                 ELSE swCaches
  /\ swLife' = [swLife EXCEPT !.phase = "installed", !.logged = ~ok,
                              !.skipWaiting = TRUE]
  /\ UNCHANGED swFetches

\* activate: caches.keys(), caches.delete for every stale name, and after
\* Promise.all of the deletions self.clients.claim().
ActivateEvent ==
  /\ swLife.phase = "installed"
  /\ swLife' = [swLife EXCEPT !.phase = "activating",
                              !.pendingDeletes = {n \in DOMAIN swCaches : Stale(n)}]
  /\ UNCHANGED <<swCaches, swFetches>>

DeleteDone(name) ==
  /\ swLife.phase = "activating"
  /\ name \in swLife.pendingDeletes
  /\ swCaches' = CachesDelete(swCaches, name)
  /\ swLife' = [swLife EXCEPT !.pendingDeletes = @ \ {name},
                              !.deleted = @ \cup {name}]
  /\ UNCHANGED swFetches

ClaimClients ==
  /\ swLife.phase = "activating"
  /\ swLife.pendingDeletes = {}
  /\ swLife' = [swLife EXCEPT !.phase = "activated", !.claimed = TRUE]
  /\ UNCHANGED <<swCaches, swFetches>>

\* A fetch event.  stage: the promise the handler waits for; trail: the cache
\* and network operations made for the event, in order; net: what the network
\* fetch settled with; resp: what respondWith was given; put: the cache write.
\* history: cachedAtStart, the URL was in a cache when the event arrived.
FetchRecord(u, m) ==
  [url |-> u, method |-> m,
   stage |-> IF Intercepted(u, m) THEN "match" ELSE "done",
   trail |-> <<>>, net |-> NoResponse,
   resp |-> IF Intercepted(u, m) THEN "none" ELSE "passthrough",
   put |-> "none", cachedAtStart |-> CachesMatch(swCaches, u)]

\* The step that follows a miss of caches.match(event.request).
BadAfterMiss(u) == "fetch"

AfterMiss(u) == IF IsAudioFile(u) THEN "pathMatch" ELSE "fetch"

Step(r, op) == [r EXCEPT !.trail = Append(@, op)]

Respond(r, resp) == [r EXCEPT !.resp = resp, !.stage = "done"]

\* The fetch listener up to respondWith; events reach an activated worker.
FetchEvent(u, m) ==
  /\ swLife.phase = "activated"
  /\ Len(swFetches) < MaxFetches
  /\ swFetches' = Append(swFetches, FetchRecord(u, m))
  /\ UNCHANGED <<swCaches, swLife>>

\* caches.match(event.request) settles.
MatchDone(i) ==
  LET r == Step(swFetches[i], "match") IN
  /\ swFetches[i].stage = "match"
  /\ swFetches' = [swFetches EXCEPT ![i] =
       IF CachesMatch(swCaches, r.url) THEN Respond(r, "cached")
       ELSE [r EXCEPT !.stage = AfterMiss(r.url)]]
  /\ UNCHANGED <<swCaches, swLife>>

\* caches.open(STATIC_CACHE) and cache.match(url.pathname) settle.
PathMatchDone(i) ==
  LET r == Step(swFetches[i], "pathMatch") IN
  /\ swFetches[i].stage = "pathMatch"
  /\ swCaches' = CachesOpen(swCaches, StaticCache)
  /\ swFetches' = [swFetches EXCEPT ![i] =
       IF CacheMatch(swCaches, StaticCache, Pathname(r.url))
         THEN Respond(r, "pathCached")
         ELSE [r EXCEPT !.stage = "fetch"]]
  /\ UNCHANGED swLife

\* fetch(event.request) settles with net.  An audio request waits for the
\* cache write before it answers; another request answers at once and the
\* write goes on by itself.  On a rejection an audio request gets the 408
\* response, a request with .html in its URL caches.match('/index.html').
NetworkDone(i, net) ==
  LET r == [Step(swFetches[i], "fetch") EXCEPT !.net = net] IN
  /\ swFetches[i].stage = "fetch"
  /\ swFetches' = [swFetches EXCEPT ![i] =
       IF net = NetworkFailure
         THEN IF ~IsAudioFile(r.url) /\ HasHtml(r.url)
                THEN [r EXCEPT !.stage = "indexMatch"]
                ELSE Respond(r, "408")
       ELSE IF ~Storable(net) THEN Respond(r, "network")
       ELSE IF IsAudioFile(r.url)
         THEN [r EXCEPT !.stage = "put", !.put = "pending"]
         ELSE [Respond(r, "network") EXCEPT !.put = "pending"]]
  /\ UNCHANGED <<swCaches, swLife>>

\* cache.put(event.request, responseToCache) settles; a failure is logged.
PutDone(i, ok) ==
  LET r == [Step(swFetches[i], "put") EXCEPT !.put = IF ok THEN "stored" ELSE "failed"]
  IN
  /\ swFetches[i].put = "pending"
  /\ swCaches' = IF ok THEN CachePut(swCaches, StaticCache, {r.url}) ELSE swCaches
  /\ swFetches' = [swFetches EXCEPT ![i] =
       IF r.stage = "put" THEN Respond(r, "network") ELSE r]
  /\ UNCHANGED swLife

\* caches.match('/index.html') settles: with undefined when no cache has it.
IndexMatchDone(i) ==
  LET r == Step(swFetches[i], "indexMatch") IN
  /\ swFetches[i].stage = "indexMatch"
  /\ swFetches' = [swFetches EXCEPT ![i] =
       Respond(r, IF CachesMatch(swCaches, "/index.html") THEN "index"
                  ELSE "undefined")]
  /\ UNCHANGED <<swCaches, swLife>>

\* A browser that may hold caches of an earlier version.
SwInit ==
  /\ manager = "core"
  /\ stopThrows = FALSE
  /\ now = 1
  /\ ctx = FALSE
  /\ currentTimbre = "audio"
  /\ activeSources = <<>>
  /\ oscSources = <<>>
  /\ lastPlayTimes = [n \in Notes |-> 0]
  /\ debounceTime = DebounceCfg
  /\ maxConcurrent = MaxConcurrentCfg
  /\ events = {}
  /\ audioBuffers = {}
  /\ pending = {}
  /\ nseq = 0
  /\ issued = {}
  /\ lastAccepted = [n \in Notes |-> 0]
  /\ lastCall = NoCall
  /\ SustainStart(FALSE)
  /\ ToggleStart
  /\ SchemeStart("none")
  /\ EnvStart(TRUE)
  /\ PreloadStart
  /\ \E have \in SUBSET {OldCache, CacheName} :
       SwStart([n \in have |-> {"/index.html"}])

SwNext ==
  \/ InstallEvent /\ UNCHANGED restOfSw
  \/ \E ok \in BOOLEAN : OpenDone(ok) /\ UNCHANGED restOfSw
  \/ \E ok \in BOOLEAN : AddAllDone(ok) /\ UNCHANGED restOfSw
  \/ ActivateEvent /\ UNCHANGED restOfSw
  \/ \E name \in swLife.pendingDeletes : DeleteDone(name) /\ UNCHANGED restOfSw
  \/ ClaimClients /\ UNCHANGED restOfSw
  \/ \E u \in Urls, m \in HttpMethods : FetchEvent(u, m) /\ UNCHANGED restOfSw
  \/ \E i \in 1..Len(swFetches) : MatchDone(i) /\ UNCHANGED restOfSw
  \/ \E i \in 1..Len(swFetches) : PathMatchDone(i) /\ UNCHANGED restOfSw
  \/ \E i \in 1..Len(swFetches), net \in NetResponses :
       NetworkDone(i, net) /\ UNCHANGED restOfSw
  \/ \E i \in 1..Len(swFetches), ok \in BOOLEAN : PutDone(i, ok) /\ UNCHANGED restOfSw
  \/ \E i \in 1..Len(swFetches) : IndexMatchDone(i) /\ UNCHANGED restOfSw

SwSpec == SwInit /\ [][SwNext]_vars

\* ------------------------------------------------- Oscillator with envelope
\* The names playNote is called with here: "0", "1", "19", "20" and "x".
OscNames == {NoteName(0), NoteName(1), NoteName(19), NoteName(20), <<"x">>}

\* playSustainedNote(noteName, velocity, options) at time t.  fails: the
\* platform raises while the nodes are created, connected or started.  The
\* operator yields the oscillator after the call and the call's history.
PlaySustained(o, name, t, table, fails) ==
  LET tab == o.activeSustainedNotes
      frequency == GetFrequencyForNote(name, o.currentPitch, o.options.type, table)
      hold == <<GainOp("setValueAtTime", Velocity * o.options.volume * 100, t)>>
      e == [noteName |-> name, id |-> SustainId(name, t),
            frequency |-> frequency, type |-> o.options.type, ops |-> hold,
            startDuration |-> o.options.duration]
  IN
  IF SustainHas(tab, name)
    THEN [osc |-> o,
          call |-> OscCall("playSustainedNote", name, SustainGet(tab, name).id,
                           "none", <<>>, 0)]
  ELSE IF frequency = 0
    THEN [osc |-> o,
          call |-> OscCall("playSustainedNote", name, NullId, "frequency", <<>>, 0)]
  ELSE IF fails
    THEN [osc |-> o,
          call |-> OscCall("playSustainedNote", name, NullId, "platform", <<>>, 0)]
  ELSE [osc |-> [o EXCEPT !.activeSustainedNotes = SustainSet(tab, e)],
        call |-> OscCall("playSustainedNote", name, e.id, "none", hold, 0)]

\* playNote(noteName, velocity) at time t, as call number k: in sustain mode
\* playSustainedNote; otherwise null without a frequency, and else the nodes
\* are created, the envelope is applied, the oscillator is started with its
\* stop scheduled, and the instance is registered.  Any exception on the way
\* is caught and null is returned.
BadPlayNote(o, name, t, k, table, fails) ==
  LET frequency == GetFrequencyForNote(name, o.currentPitch, o.options.type, table)
      ops == ApplyADSREnvelope(Velocity * o.options.volume, o.options, t)
      e == [id |-> OscSourceId(name, t, k), noteName |-> name,
            frequency |-> frequency, type |-> o.options.type, ops |-> ops,
            startTime |-> t, stopTime |-> t + o.options.duration]
      reg == [o EXCEPT !.activeSources = MapSet(o.activeSources, e)]
  IN
  IF o.sustainMode THEN PlaySustained(o, name, t, table, fails)
  ELSE IF frequency = 0
    THEN [osc |-> o, call |-> OscCall("playNote", name, NullId, "frequency", <<>>, 0)]
  ELSE IF fails
    THEN [osc |-> o, call |-> OscCall("playNote", name, NullId, "platform", <<>>, 0)]
  ELSE IF Raises(ops)
    THEN [osc |-> reg, call |-> OscCall("playNote", name, NullId, "RangeError", <<>>, 0)]
  ELSE [osc |-> reg, call |-> OscCall("playNote", name, e.id, "none", ops, 0)]

PlayNote(o, name, t, k, table, fails) ==
  LET frequency == GetFrequencyForNote(name, o.currentPitch, o.options.type, table)
      ops == ApplyADSREnvelope(Velocity * o.options.volume, o.options, t)
      e == [id |-> OscSourceId(name, t, k), noteName |-> name,
            frequency |-> frequency, type |-> o.options.type, ops |-> ops,
            startTime |-> t, stopTime |-> t + o.options.duration]
  IN
  IF o.sustainMode THEN PlaySustained(o, name, t, table, fails)
  ELSE IF frequency = 0
    THEN [osc |-> o, call |-> OscCall("playNote", name, NullId, "frequency", <<>>, 0)]
  ELSE IF fails
    THEN [osc |-> o, call |-> OscCall("playNote", name, NullId, "platform", <<>>, 0)]
  ELSE IF Raises(ops)
    THEN [osc |-> o, call |-> OscCall("playNote", name, NullId, "RangeError", <<>>, 0)]
  ELSE [osc |-> [o EXCEPT !.activeSources = MapSet(o.activeSources, e)],
        call |-> OscCall("playNote", name, e.id, "none", ops, 0)]

\* The gain operations of stopSustainedNote at time t: the release lasts
\* options.duration as it is at the stop.
ReleaseOps(o, e, t) ==
  <<GainOp("cancelScheduledValues", 0, t),
    GainOp("setValueAtTime", e.ops[Len(e.ops)].value, t),
    GainOp("exponentialRampToValueAtTime", 1000, t + o.options.duration)>>

\* stopSustainedNote(noteName) at time t: nothing for a note that is not in
\* the table; otherwise the release is applied and the entry deleted.
StopSustained(o, name, t) ==
  LET tab == o.activeSustainedNotes
      e == SustainGet(tab, name)
  IN
  IF ~SustainHas(tab, name)
    THEN [osc |-> o,
          call |-> OscCall("stopSustainedNote", name, NullId, "absent", <<>>, 0)]
  ELSE [osc |-> [o EXCEPT !.activeSustainedNotes = SustainDelete(tab, name)],
        call |-> OscCall("stopSustainedNote", name, e.id, "none",
                         ReleaseOps(o, e, t), e.startDuration)]

\* A call on the oscillator that yields r.
OscStep(r) ==
  /\ oscCalls < MaxOscCalls
  /\ oscCalls' = oscCalls + 1
  /\ osc' = r.osc
  /\ oscLast' = r.call
  /\ UNCHANGED <<oscTime, oscConfig>>

\* A setter call: o is the oscillator after it.
Setter(fn, o) == [osc |-> o, call |-> OscCall(fn, <<>>, NullId, "none", <<>>, 0)]

EnvPlayNote(name, fails) ==
  OscStep(PlayNote(osc, name, oscTime, oscCalls + 1, oscConfig, fails))

EnvStopSustainedNote(name) == OscStep(StopSustained(osc, name, oscTime))

\* setType(type): only the four waveforms are taken.
SetType(type) ==
  OscStep(Setter("setType",
                 IF type \in {"sine", "square", "triangle", "sawtooth"}
                   THEN [osc EXCEPT !.options.type = type] ELSE osc))

\* setVolume(volume): clamped to [0, 1].
BadSetVolume(volume) ==
  OscStep(Setter("setVolume", [osc EXCEPT !.options.volume = Max(0, volume)]))

SetVolume(volume) ==
  OscStep(Setter("setVolume",
                 [osc EXCEPT !.options.volume = Max(0, Min(100, volume))]))

\* setDuration(duration): at least 0.1 s.
SetDuration(duration) ==
  OscStep(Setter("setDuration",
                 [osc EXCEPT !.options.duration = Max(100, duration)]))

\* handleOscillatorDurationChange(duration) for the slider at v percent:
\* 0.1 + duration * 1.9 seconds.
HandleOscillatorDurationChange(v) == SetDuration(100 + 19 * v)

\* setPitch(pitch): any value is taken.
SetPitch(pitch) == OscStep(Setter("setPitch", [osc EXCEPT !.currentPitch = pitch]))

\* setADSREnvelope(adsrParams): p.given are the parameters that are defined.
SetADSREnvelope(p) ==
  LET o == osc.options IN
  OscStep(Setter("setADSREnvelope",
    [osc EXCEPT !.options =
       [o EXCEPT
          !.attack = IF "attack" \in p.given THEN Max(0, p.attack) ELSE @,
          !.decay = IF "decay" \in p.given THEN Max(0, p.decay) ELSE @,
          !.sustain = IF "sustain" \in p.given
                        THEN Max(0, Min(100, p.sustain)) ELSE @,
          !.release = IF "release" \in p.given THEN Max(0, p.release) ELSE @]]))

\* The parameter objects setADSREnvelope is called with here.
AdsrParams ==
  {[given |-> {"release"}, attack |-> 0, decay |-> 0, sustain |-> 0, release |-> 600],
   [given |-> {"sustain"}, attack |-> 0, decay |-> 0, sustain |-> 0, release |-> 0],
   [given |-> {"attack", "decay"}, attack |-> 0 - 5, decay |-> 300, sustain |-> 0,
    release |-> 0]}

\* handleSustainToggle(isEnabled) as it acts on an existing oscillator: the
\* mode is set, and switching it off stops every sustained note.
EnvHandleSustainToggle(b) ==
  OscStep(Setter("handleSustainToggle",
                 [osc EXCEPT !.sustainMode = b,
                             !.activeSustainedNotes = IF b THEN @ ELSE <<>>]))

\* The audio clock runs once the context has been resumed.
EnvClock ==
  /\ oscTime = 0
  /\ oscTime' = 1000
  /\ UNCHANGED <<osc, oscConfig, oscLast, oscCalls>>

\* The playback core with a given manager and context, nothing played.
CoreStart(m, c) ==
  /\ manager = m
  /\ stopThrows = FALSE
  /\ now = 1
  /\ ctx = c
  /\ currentTimbre = "oscillator"
  /\ activeSources = <<>>
  /\ oscSources = <<>>
  /\ lastPlayTimes = [n \in Notes |-> 0]
  /\ debounceTime = DebounceCfg
  /\ maxConcurrent = MaxConcurrentCfg
  /\ events = {}
  /\ audioBuffers = {}
  /\ pending = {}
  /\ nseq = 0
  /\ issued = {}
  /\ lastAccepted = [n \in Notes |-> 0]
  /\ lastCall = NoCall

\* An oscillator created by the OscillatorManager, in a page with or without
\* the frequency table of audio-config.js.
EnvInit ==
  /\ CoreStart("core", TRUE)
  /\ SustainStart(FALSE)
  /\ ToggleStart
  /\ SchemeStart("none")
  /\ SwStart(NoCaches)
  /\ \E config \in BOOLEAN : EnvStart(config)
  /\ PreloadStart

EnvNext ==
  \/ \E name \in OscNames, fails \in BOOLEAN :
       EnvPlayNote(name, fails) /\ UNCHANGED restOfEnv
  \/ \E name \in OscNames : EnvStopSustainedNote(name) /\ UNCHANGED restOfEnv
  \/ \E type \in {"sine", "square", "sawtooth", "noise"} :
       SetType(type) /\ UNCHANGED restOfEnv
  \/ \E volume \in {0 - 20, 0, 70, 150} :
       SetVolume(volume) /\ UNCHANGED restOfEnv
  \/ \E v \in {0, 100} : HandleOscillatorDurationChange(v) /\ UNCHANGED restOfEnv
  \/ \E pitch \in {"low", "high", "medium"} : SetPitch(pitch) /\ UNCHANGED restOfEnv
  \/ \E p \in AdsrParams : SetADSREnvelope(p) /\ UNCHANGED restOfEnv
  \/ \E b \in BOOLEAN : EnvHandleSustainToggle(b) /\ UNCHANGED restOfEnv
  \/ EnvClock /\ UNCHANGED restOfEnv

EnvSpec == EnvInit /\ [][EnvNext]_vars

\* The oscillator with only its pitch and waveform set and notes played.
FrequencyNext ==
  \/ \E name \in OscNames : EnvPlayNote(name, FALSE) /\ UNCHANGED restOfEnv
  \/ \E type \in {"sine", "square", "sawtooth", "noise"} :
       SetType(type) /\ UNCHANGED restOfEnv
  \/ \E pitch \in {"low", "high", "medium"} : SetPitch(pitch) /\ UNCHANGED restOfEnv

FrequencySpec == EnvInit /\ [][FrequencyNext]_vars

\* ------------------------------------------------------------ batch preload
\* Math.round(num / den) for a non-negative quotient.
Round(num, den) == (2 * num + den) \div (2 * den)

\* AudioLoader.preloadAll: Math.round((loadedCount / totalFiles) * 100).
BadLoaderProgress(loadedCount, totalFiles) ==
  Round(100 * (totalFiles + 1 - loadedCount), totalFiles + 1)

LoaderProgress(loadedCount, totalFiles) == Round(100 * loadedCount, totalFiles)

\* AudioManager.preloadAll: 10 + Math.round(progress * 0.8).
MappedProgress(progress) == 10 + Round(8 * progress, 10)

\* audio.js preloadAll: Math.round(10 + (i / uniqueFiles.length) * 80).
LegacyProgress(i, length) == Round(10 * length + 80 * i, length)

\* The value the callback gets when a file is done, count files being done
\* before it.
Progress(caller, count, total) ==
  IF caller = "legacy" THEN LegacyProgress(count, total)
  ELSE IF caller = "manager"
    THEN MappedProgress(LoaderProgress(count + 1, total))
  ELSE LoaderProgress(count + 1, total)

\* The first lines of setupPreloadWithAudio and of the audio.js preloadAll,
\* and the lines that end them.
StartState(st) ==
  [st EXCEPT !.exists = TRUE, !.isLoading = TRUE, !.progress = 0,
             !.hasStarted = TRUE]

BadDoneState(st) == [st EXCEPT !.isLoading = FALSE]

DoneState(st) == [st EXCEPT !.isLoading = FALSE, !.progress = 100]

\* The progress of the preload is stored in window.audioLoadingState: by the
\* callback of the LoaderManager, and by the audio.js preloadAll itself.
Tracks(pr) == pr.byLoader \/ pr.caller = "legacy"

\* The progress callback is called with each of vals.
Report(pr, vals) ==
  IF vals = <<>> THEN pr
  ELSE [pr EXCEPT !.reports = @ \o vals,
                  !.loadingState.progress =
                     IF Tracks(pr) THEN vals[Len(vals)] ELSE @]

\* The promise of the preload in progress resolves.
Settled(pr) ==
  [pr EXCEPT !.phase = "idle", !.isLoading = FALSE, !.resolved = @ + 1,
             !.loadingState = IF Tracks(pr) THEN DoneState(@) ELSE @]

\* A preloadAll that reports vals and settles before anything else runs.
Quick(pr, vals, tracked) ==
  [pr EXCEPT !.quick = vals,
             !.loadingState = IF tracked THEN DoneState(StartState(@)) ELSE @]

\* The callback preloadAll maps over the files, for file f: it awaits
\* loadAudioFile(f) and catches its rejection, so the file is done either
\* way, is counted and reported, and the other files go on.
BadSettle(pr, f, ok) ==
  IF f \notin pr.awaited THEN pr
  ELSE IF ok THEN [pr EXCEPT !.awaited = @ \ {f}]
  ELSE [pr EXCEPT !.awaited = {}, !.failed = @ \cup {f}, !.isLoading = FALSE]

Settle(pr, f, ok) ==
  IF f \notin pr.awaited THEN pr
  ELSE Report([pr EXCEPT !.awaited = @ \ {f},
                         !.failed = IF ok THEN @ ELSE @ \cup {f},
                         !.count = @ + 1],
              <<Progress(pr.caller, pr.count, Cardinality(pr.batch))>>)

\* The batch AudioLoader.preloadAll starts for caller: loadAudioFile is
\* called for every file of the notes map, which starts a load for each
\* file that is neither loaded nor loading; the files already loaded are
\* counted and reported before anything else runs.  head: what the caller
\* has reported before.
LoaderBatch(caller, byLoader, head) ==
  LET done == Cardinality(Files \cap loadedFiles)
      total == Cardinality(Files)
      pr == [preload EXCEPT !.isLoading = TRUE, !.phase = "files",
                            !.caller = caller, !.byLoader = byLoader,
                            !.batch = Files, !.awaited = Files \ loadedFiles,
                            !.failed = {}, !.count = done, !.reports = <<>>,
                            !.loadingState =
                               IF byLoader THEN StartState(@) ELSE @]
  IN
  /\ preload' = Report(pr, head \o [k \in 1..done |->
                                      Progress(caller, k - 1, total)])
  /\ loadingPromises' = loadingPromises \cup (Files \ loadedFiles)
  /\ fetching' = [f \in Files |->
                    IF f \in loadedFiles \cup loadingPromises THEN fetching[f]
                    ELSE fetching[f] + 1]
  /\ cachedAtSwitch' = cachedAtSwitch \ Files

\* The loop of simulated progress a preloadAll starts: a value every 20 or
\* 30 ms, from first + 10 to last.
SimulatedLoop(caller, byLoader, head, first, last) ==
  LET pr == [preload EXCEPT !.phase = "timers", !.caller = caller,
                            !.byLoader = byLoader, !.isLoading = caller = "legacy",
                            !.batch = {}, !.awaited = {}, !.failed = {},
                            !.count = 0, !.sim = first, !.simEnd = last,
                            !.reports = <<>>,
                            !.loadingState =
                               IF byLoader \/ caller = "legacy"
                                 THEN StartState(@) ELSE @]
  IN preload' = Report(pr, head)

\* AudioLoader.preloadAll(progressCallback): nothing while a batch is
\* loading (the callback is never called).  One preload at a time is followed.
PreloadAll ==
  /\ manager = "core" /\ ctx
  /\ CanCall
  /\ preload.phase # "timers"
  /\ nseq' = nseq + 1
  /\ IF preload.isLoading
       THEN UNCHANGED <<preload, loadingPromises, fetching, cachedAtSwitch>>
       ELSE preload.phase = "idle" /\ LoaderBatch("loader", FALSE, <<>>)
  /\ UNCHANGED <<playbackVars, audioBuffers, currentScheme, notesMap,
                 switchResult, timbreEvents, loaderBuffers, loadedFiles>>

\* AudioManager.preloadAll(progressCallback) of the core manager.  Without a
\* context: the simulated loop 10..100.  resumeFails: the context is
\* suspended and resume() rejects, 100 is reported.  Otherwise 10 is
\* reported and the loader's preloadAll is awaited with a callback that maps
\* its progress into 10..90 (without a loader: the simulated loop 20..90),
\* and 100 is reported at the end.  lm: the call is the one made by
\* LoaderManager.setupPreloadWithAudio, which runs once, before any other.
CorePreloadAll(resumeFails, lm) ==
  /\ manager = "core"
  /\ CanCall
  /\ preload.phase # "timers"
  /\ lm => ~preload.loadingState.exists /\ preload.phase = "idle"
  /\ nseq' = nseq + 1
  /\ IF ~ctx
       THEN /\ SimulatedLoop("manager", lm, <<>>, 0, 100)
            /\ UNCHANGED <<loadingPromises, fetching, cachedAtSwitch>>
       ELSE IF resumeFails
       THEN /\ preload' = Quick(preload, <<100>>, lm)
            /\ UNCHANGED <<loadingPromises, fetching, cachedAtSwitch>>
       ELSE IF contextOnly
       THEN /\ preload.phase = "idle"
            /\ SimulatedLoop("manager", lm, <<10>>, 10, 90)
            /\ UNCHANGED <<loadingPromises, fetching, cachedAtSwitch>>
       ELSE IF preload.isLoading
       THEN /\ preload' = Quick(preload, <<10, 100>>, lm)
            /\ UNCHANGED <<loadingPromises, fetching, cachedAtSwitch>>
       ELSE preload.phase = "idle" /\ LoaderBatch("manager", lm, <<10>>)
  /\ UNCHANGED <<playbackVars, audioBuffers, currentScheme, notesMap,
                 switchResult, timbreEvents, loaderBuffers, loadedFiles>>

\* A timer of the simulated loop fires: the next value is reported; after
\* the last one the preload is over (the loop that ends at 90 is followed by
\* the report of 100).
PreloadTimer ==
  LET v == preload.sim + 10
      last == v = preload.simEnd
      pr == Report([preload EXCEPT !.sim = v],
                   IF last /\ preload.simEnd = 90 THEN <<v, 100>> ELSE <<v>>)
  IN
  /\ preload.phase = "timers"
  /\ preload' = IF last THEN Settled(pr) ELSE pr
  /\ UNCHANGED <<coreVars, schemeVars>>

\* A load settles while a batch may be waiting for it.
PreloadFileDone(f, ok) ==
  /\ FetchAndDecodeDone(f, ok)
  /\ preload' = Settle(preload, f, ok)

\* Promise.all over the files has resolved (the loop of the audio.js manager
\* has ended): the batch is over, the managers report 100, and the promise
\* of preloadAll resolves.
PreloadResolve ==
  /\ preload.phase = "files"
  /\ preload.awaited = {}
  /\ preload' = Settled(Report(preload,
                               IF preload.caller \in {"manager", "legacy"}
                                 THEN <<100>> ELSE <<>>))
  /\ UNCHANGED <<coreVars, schemeVars>>

\* AudioLoader.cleanup(): the buffers, the loaded files and the records of
\* the loads in progress are forgotten and isLoading is reset; the calls of
\* _fetchAndDecodeAudio in flight go on.
Cleanup ==
  /\ manager = "core" /\ ctx
  /\ CanCall
  /\ nseq' = nseq + 1
  /\ loaderBuffers' = {}
  /\ loadingPromises' = {}
  /\ loadedFiles' = {}
  /\ preload' = [preload EXCEPT !.isLoading = FALSE]
  /\ UNCHANGED <<playbackVars, audioBuffers, currentScheme, notesMap,
                 switchResult, timbreEvents, fetching, cachedAtSwitch>>

\* The loading state after Object.keys(this.notesMap) has thrown in the
\* audio.js preloadAll: its catch block resets isLoading and calls the
\* callback with 100, which the callback of the LoaderManager stores.
ThrownState(st, lm) ==
  IF lm THEN DoneState(StartState(st)) ELSE [st EXCEPT !.isLoading = FALSE]

\* preloadAll(progressCallback) of the audio.js manager: it sets the global
\* loading state; without an audio context it runs the simulated loop
\* 10..100; resumeFails: the context is suspended and resume() rejects, 100
\* is reported; otherwise 10 is reported and it goes through the files of the
\* notes map (one file per note).  With no notes map Object.keys throws
\* first: if the loading state exists the catch block reports 100 and the
\* promise resolves, otherwise the catch block throws as well, nothing is
\* reported and the promise is rejected.  One preload at a time is modelled.
LegacyPreloadAll(resumeFails, lm) ==
  /\ manager = "legacy"
  /\ CanCall
  /\ preload.phase = "idle"
  /\ lm => ~preload.loadingState.exists
  /\ nseq' = nseq + 1
  /\ IF notesMap = UndefinedMap
       THEN preload' =
              IF lm \/ preload.loadingState.exists
                THEN [preload EXCEPT !.quick = <<100>>,
                                     !.loadingState = ThrownState(@, lm)]
                ELSE [preload EXCEPT !.quick = <<>>]
       ELSE IF ~ctx
       THEN SimulatedLoop("legacy", lm, <<>>, 0, 100)
       ELSE IF resumeFails
       THEN preload' = Quick(preload, <<100>>, TRUE)
       ELSE preload' =
              Report([preload EXCEPT !.isLoading = TRUE, !.phase = "files",
                                     !.caller = "legacy", !.byLoader = lm,
                                     !.batch = Notes, !.awaited = Notes,
                                     !.failed = {}, !.count = 0,
                                     !.reports = <<>>,
                                     !.loadingState = StartState(@)],
                     <<10>>)
  /\ UNCHANGED <<playbackVars, audioBuffers, schemeVars>>

\* One turn of that loop, for the file of note n: a file in audioBuffers is
\* passed over; otherwise _loadAudioBuffer is awaited, and its buffer is
\* cached unless it is null; the progress is reported either way.  The order
\* of the files is left open.
LegacyPreloadStep(n, ok) ==
  /\ manager = "legacy"
  /\ preload.phase = "files"
  /\ n \in preload.awaited
  /\ audioBuffers' = IF ok THEN audioBuffers \cup {n} ELSE audioBuffers
  /\ preload' = Settle(preload, n, ok \/ n \in audioBuffers)
  /\ UNCHANGED <<playbackVars, nseq, schemeVars>>

\* A page with one of the two managers that preload samples.
PreloadInit ==
  /\ \E m \in {"core", "legacy"}, c \in BOOLEAN : CoreStart(m, c)
  /\ SustainStart(FALSE)
  /\ ToggleStart
  /\ SchemeStart(IF manager = "legacy" THEN "popular" ELSE "none")
  /\ SwStart(NoCaches)
  /\ EnvStart(TRUE)
  /\ PreloadStart

PreloadNext ==
  \/ EnsureContext /\ UNCHANGED extVars
  \/ PreloadAll /\ UNCHANGED restOfPreload
  \/ \E resumeFails \in BOOLEAN, lm \in BOOLEAN :
       CorePreloadAll(resumeFails, lm) /\ UNCHANGED restOfPreload
  \/ PreloadTimer /\ UNCHANGED restOfPreload
  \/ \E f \in Files, ok \in BOOLEAN :
       PreloadFileDone(f, ok) /\ UNCHANGED restOfPreload
  \/ PreloadResolve /\ UNCHANGED restOfPreload
  \/ \E f \in Files : LoadAudioFile(f) /\ UNCHANGED <<restOfPreload, preload>>
  \/ \E resumeFails \in BOOLEAN, lm \in BOOLEAN :
       LegacyPreloadAll(resumeFails, lm) /\ UNCHANGED restOfPreload
  \/ \E n \in Notes, ok \in BOOLEAN :
       LegacyPreloadStep(n, ok) /\ UNCHANGED restOfPreload
  \/ \E n \in Notes : LegacyPlayNote(n) /\ UNCHANGED extVars
  \/ \E p \in pending, ok \in BOOLEAN : LegacyLoadDone(p, ok) /\ UNCHANGED extVars

PreloadSpec == PreloadInit /\ [][PreloadNext]_vars

\* The preloads together with the scheme switches and the loader's cleanup.
LoaderNext ==
  \/ PreloadNext
  \/ Cleanup /\ UNCHANGED restOfPreload
  \/ \E s \in Schemes \cup UnknownSchemes :
       CoreSwitchAudioScheme(s) /\ UNCHANGED restOfScheme
  \/ \E s \in Schemes \cup UnknownSchemes :
       LegacySwitchAudioScheme(s) /\ UNCHANGED restOfScheme

LoaderSpec == PreloadInit /\ [][LoaderNext]_vars

\* Every started load settles, every timer fires, and the continuation of a
\* batch runs.
PreloadFairSpec ==
  /\ PreloadSpec
  /\ WF_vars(\E f \in Files, ok \in BOOLEAN :
               PreloadFileDone(f, ok) /\ UNCHANGED restOfPreload)
  /\ WF_vars(\E n \in Notes, ok \in BOOLEAN :
               LegacyPreloadStep(n, ok) /\ UNCHANGED restOfPreload)
  /\ WF_vars(PreloadTimer /\ UNCHANGED restOfPreload)
  /\ WF_vars(PreloadResolve /\ UNCHANGED restOfPreload)

LoaderFairSpec ==
  /\ LoaderSpec
  /\ WF_vars(\E f \in Files, ok \in BOOLEAN :
               PreloadFileDone(f, ok) /\ UNCHANGED restOfPreload)
  /\ WF_vars(\E n \in Notes, ok \in BOOLEAN :
               LegacyPreloadStep(n, ok) /\ UNCHANGED restOfPreload)
  /\ WF_vars(PreloadTimer /\ UNCHANGED restOfPreload)
  /\ WF_vars(PreloadResolve /\ UNCHANGED restOfPreload)

\* A page with the core manager or the fallback manager, the oscillator
\* timbre, no context yet and no finger down.
TouchInit ==
  /\ \E m \in {"core", "fallback"} : CoreStart(m, FALSE)
  /\ SustainStart(FALSE)
  /\ ToggleStart
  /\ SchemeStart("none")
  /\ SwStart(NoCaches)
  /\ EnvStart(TRUE)
  /\ PreloadStart

TouchNext ==
  \/ Tick /\ UNCHANGED extVars
  \/ ToggleEnsureContext /\ UNCHANGED restOfToggle
  \/ \E b \in BOOLEAN : HandleSustainToggle(b) /\ UNCHANGED restOfToggle
  \/ \E t \in TouchIds, n \in Notes, slow \in BOOLEAN :
       HandleTouchStart(t, n, slow) /\ UNCHANGED restOfToggle
  \/ \E t \in TouchIds : HandleTouchEnd(t) /\ UNCHANGED restOfToggle
  \/ \E t \in TouchIds, n \in Notes \cup {"none"}, slow \in BOOLEAN :
       HandleTouchMove(t, n, slow) /\ UNCHANGED restOfToggle
  \/ \E p \in pending, ok \in BOOLEAN :
       FallbackResumed(p, ok) /\ UNCHANGED restOfToggle
  \/ \E ev \in events : ReleaseTimeout(ev) /\ UNCHANGED restOfSustain
  \/ \E ev \in events : EndOfPlayback(ev) /\ UNCHANGED extVars

TouchSpec == TouchInit /\ [][TouchNext]_vars

\* ------------------------------------------------------------ specification
Next ==
  \/ Tick /\ UNCHANGED extVars
  \/ EnsureContext /\ UNCHANGED extVars
  \/ \E n \in Notes : CorePlayNote(n) /\ UNCHANGED extVars
  \/ \E n \in Notes, m \in Methods : ControllerCall(n, m) /\ UNCHANGED extVars
  \/ \E n \in Notes : LegacyPlayNote(n) /\ UNCHANGED extVars
  \/ \E p \in pending, ok \in BOOLEAN : LegacyLoadDone(p, ok) /\ UNCHANGED extVars
  \/ \E n \in Notes : FallbackPlayNote(n) /\ UNCHANGED extVars
  \/ \E t \in Timbres :
       t # currentTimbre /\ SetTimbre(t) /\ UNCHANGED restOfScheme
  \/ \E d \in {0, DebounceCfg} : SetDebounceTime(d) /\ UNCHANGED extVars
  \/ \E m \in 1..MaxConcurrentCfg : SetMaxConcurrent(m) /\ UNCHANGED extVars
  \/ \E ev \in events : EndOfPlayback(ev) /\ UNCHANGED extVars
  \/ \E ev \in events : SafetyTimeout(ev) /\ UNCHANGED extVars
  \/ \E ev \in events : FadeTimeout(ev) /\ UNCHANGED extVars
  \/ \E id \in FileIds : CleanupSourceCall(id) /\ UNCHANGED extVars
  \/ \E id \in OscIds : OscCleanupSourceCall(id) /\ UNCHANGED extVars

Spec == Init /\ [][Next]_vars

\* Timers fire and the clock advances; the delivery of an end event is the
\* platform's and is not guaranteed.
FairSpec ==
  /\ Spec
  /\ WF_vars(Tick /\ UNCHANGED extVars)
  /\ \A n \in Notes, t \in 1..MaxTime :
       /\ WF_vars(\E ev \in events : /\ ev.id = FileSourceId(n, t)
                                   /\ SafetyTimeout(ev)
                                   /\ UNCHANGED extVars)
       /\ WF_vars(\E ev \in events : /\ ev.id = FileSourceId(n, t)
                                   /\ FadeTimeout(ev)
                                   /\ UNCHANGED extVars)

\* ================================================================== claims
\* The sample registry and the oscillator registry together.
AllEntries == Entries(activeSources) \cup Entries(oscSources)

\* C1: debounce.  A playNote(n) call of the playback controller or of the
\* audio.js manager made less than the debounce window after the previous
\* accepted trigger of n returns null, and no instance in the sample registry
\* comes from such a call.
C1_Debounce ==
  /\ (lastCall.fn \in {"controller", "legacy"} /\ lastCall.inWindow)
       => lastCall.result = "null"
  /\ \A e \in Entries(activeSources) : ~e.inWindow

\* An instance stopNote is fading out: its cleanup timer is pending.
Fading(e) == \E ev \in events : ev.kind = "fade" /\ ev.seq = e.seq

\* C2: at most one voice per note.  The sample registry never holds two
\* instances of one note whose triggers lie more than the debounce window
\* apart, unless the earlier one is already being faded out by stopNote: the
\* earlier one is stopped before the later one is registered.
C2_OneVoicePerNote ==
  \A e1, e2 \in Entries(activeSources) :
    (e1.noteName = e2.noteName /\ e1.seq # e2.seq /\ ~Fading(e1))
      => ~(e2.trig - e1.trig > DebounceCfg)

\* C3: concurrency bound.  In every reachable state the sample registry holds
\* at most maxConcurrent instances.
C3_ConcurrencyBound == Len(activeSources) <= maxConcurrent

\* C4: when a trigger finds the registry at the concurrency bound, the
\* instance stopOldestSource evicts is the first-triggered one registered.
C4_EvictsFirstTriggered ==
  lastCall.evicted # 0 => lastCall.evicted = lastCall.first

\* C5: every playNote call that invokes an engine has run the debounce check
\* and the concurrency check before.
C5_ThroughController == lastCall.engine # "none" => lastCall.gated

\* Ids cleanupSource is called with.
CallIds == FileIds \cup OscIds

\* C6: cleanupSource(id) is idempotent.  After the call the id is not in the
\* registry; called with an id that is not registered (cleaned up before, or
\* never registered) it changes neither the registries nor the callbacks.
C6_CleanupIdempotent ==
  [][\A id \in CallIds :
       /\ CleanupSourceCall(id) =>
            /\ ~MapHas(activeSources', id)
            /\ ~MapHas(activeSources, id) =>
                 UNCHANGED <<activeSources, oscSources, events>>
       /\ OscCleanupSourceCall(id) =>
            /\ ~MapHas(oscSources', id)
            /\ ~MapHas(oscSources, id) =>
                 UNCHANGED <<activeSources, oscSources, events>>]_vars

\* A cleanupSource call has just been repeated for an id that was registered
\* and cleaned up before, while another instance is registered.
C6_Witness ==
  /\ lastCall.fn = "cleanupSource"
  /\ lastCall.result = "repeated"
  /\ AllEntries # {}

\* The instance whose callback ev is still holds the registry entry of its id.
Own(ev) == \E e \in Entries(activeSources) : e.id = ev.id /\ e.seq = ev.seq

\* The end event or the safety timer ev of a sample instance runs.
SampleCallback(ev) ==
  /\ ev.path # "oscillator"
  /\ EndOfPlayback(ev) \/ SafetyTimeout(ev)

\* C7: of the end event and the safety timeout of a sample instance, the one
\* that runs while the instance is registered removes it (where stop() does
\* not raise), and one that runs after the instance has left the registry
\* changes no registry entry.
C7_LaterCallbackNoOp ==
  [][\A ev \in events :
       SampleCallback(ev) =>
         /\ (Own(ev) /\ ~stopThrows) =>
              ~\E e \in Entries(activeSources') : e.seq = ev.seq
         /\ ~Own(ev) => activeSources' = activeSources]_vars

\* C8: when a cleanup path (cleanupSource, the end-event handler or the
\* safety-timeout handler) runs for a registered instance, the instance is not
\* in the registry afterwards, also when stop() raises.
C8_CleanupRemoves ==
  [][/\ \A ev \in events :
          (SampleCallback(ev) /\ Own(ev)) =>
            ~\E e \in Entries(activeSources') : e.seq = ev.seq
     /\ \A id \in CallIds :
          CleanupSourceCall(id) => ~MapHas(activeSources', id)]_vars

Registered(k) == \E e \in AllEntries : e.seq = k

\* C9: every registered instance is eventually removed from its registry.
C9_EventuallyRemoved ==
  \A k \in 1..MaxCalls : Registered(k) ~> ~Registered(k)

\* An instance that is registered in this step.
NewEntries ==
  {e \in Entries(activeSources') \cup Entries(oscSources') : ~Registered(e.seq)}

\* C10: an instance is registered under an id no instance had before, and
\* registering never replaces the registry entry of another instance.
C10_UniqueIds ==
  [][/\ \A e \in NewEntries : e.id \notin issued
     /\ \A e \in Entries(activeSources') : \A d \in Entries(activeSources) :
          e.id = d.id => e.seq = d.seq]_vars
\* ------------------------------------------------------- sustained notes
\* Node k is sustaining: it has not been stopped and no release timer is
\* pending for it.
Sustaining(k) ==
  /\ sustainNodes[k].stops = 0
  /\ ~\E ev \in events : ev.kind = "release" /\ ev.seq = k

SustainingNodes(n) ==
  {k \in 1..Len(sustainNodes) : sustainNodes[k].noteName = n /\ Sustaining(k)}

\* C11: at most one sustained instance per note.  No note ever has two
\* sustaining oscillator nodes or two table entries, and a playNote call in
\* sustain mode for a note that is already in the table creates no node,
\* leaves the table as it is and returns the id of the entry.
C11_OneSustainedPerNote ==
  /\ [](\A n \in Notes :
          /\ Cardinality(SustainingNodes(n)) <= 1
          /\ Cardinality({i \in 1..Len(activeSustainedNotes) :
                            activeSustainedNotes[i].noteName = n}) <= 1)
  /\ [][\A n \in NoteNames :
          (sustainMode /\ SustainHas(activeSustainedNotes, n) /\ OscPlayNote(n))
            => /\ sustainNodes' = sustainNodes
               /\ activeSustainedNotes' = activeSustainedNotes
               /\ sustainCall'.result = SustainGet(activeSustainedNotes, n).id]_vars

\* playSustainedNote has just been repeated for a note that was sustaining.
C11_Witness ==
  /\ sustainCall.fn = "playSustainedNote"
  /\ sustainCall.had
  /\ SustainHas(activeSustainedNotes, sustainCall.noteName)
  /\ sustainCall.result = SustainGet(activeSustainedNotes, sustainCall.noteName).id
  /\ Len(sustainNodes) = 1
\* The release timers pending for node k.
ReleaseTimers(k) == {ev \in events : ev.kind = "release" /\ ev.seq = k}

DebounceRejected ==
  /\ lastCall.fn \in {"controller", "legacy"}
  /\ lastCall.gated
  /\ lastCall.result = "null"

\* C13: while the sustain switch is on, no playNote call made since it was
\* switched on has been rejected by the debounce check, with any of the
\* audio managers.
C13_NoDebounceInSustain == sustainToggle => ~DebounceRejected
\* C14: a scheme switch clears the cache.  Right after a successful
\* switchAudioScheme the decoded-sample cache is empty, and the next load
\* (core) or accepted play (audio.js) of something that was cached before the
\* switch starts a new fetch and decode.
C14_SwitchClearsCache ==
  [][/\ \A s \in Schemes :
          (CoreSwitchAudioScheme(s) \/ LegacySwitchAudioScheme(s)) =>
            (loaderBuffers' = {} /\ audioBuffers' = {})
     /\ \A f \in Files :
          (LoadAudioFile(f) /\ f \in cachedAtSwitch) => f \in loadingPromises'
     /\ \A n \in Notes :
          (LegacyPlayNote(n) /\ n \in cachedAtSwitch /\ lastCall'.result # "null")
            => pending' # pending]_vars
\* ------------------------------------------------------- service worker
\* The fetch events handled so far, and the network fetches made for one.
Handled == {swFetches[i] : i \in 1..Len(swFetches)}

Net(r) == Cardinality({k \in 1..Len(r.trail) : r.trail[k] = "fetch"})

\* The request is one the handler leaves to the browser.
PassedThrough(r) == r.method # "GET" \/ r.url = "chrome-extension://x/y.js"

\* A GET that arrives when a cache holds its URL is answered from the cache
\* without a network fetch; a GET answered from the network made exactly one
\* network fetch.
CacheFirst(r) ==
  /\ (~PassedThrough(r) /\ r.cachedAtStart /\ r.stage = "done")
       => (r.resp = "cached" /\ Net(r) = 0)
  /\ r.resp = "cached" => Net(r) = 0
  /\ (r.stage = "done" /\ r.resp \in {"network", "408", "index", "undefined"})
       => Net(r) = 1

\* C15 as stated: cache-first fetch, and once a request has been answered
\* with a status-200 same-origin response from the network, its URL is in
\* the cache for the next GET.
C15_StoredForNextTime ==
  \A r \in Handled :
    /\ CacheFirst(r)
    /\ (r.stage = "done" /\ Storable(r.net)) => CachesMatch(swCaches, r.url)

\* C15, amended: cache-first fetch; a status-200 same-origin response from
\* the network is written to the cache, and once that write has succeeded
\* the URL is in the cache, so that a GET for it arriving from then on is
\* answered from the cache without a network fetch.
C15_CacheFirstFetch ==
  \A r \in Handled :
    /\ CacheFirst(r)
    /\ (r.stage = "done" /\ Storable(r.net)) => r.put # "none"
    /\ r.put = "stored" => CachesMatch(swCaches, r.url)

\* A URL was fetched from the network and stored, and a later GET for it has
\* been answered from the cache.
C15_Witness ==
  \E i, j \in 1..Len(swFetches) :
    /\ i < j
    /\ swFetches[i].url = swFetches[j].url
    /\ ~swFetches[i].cachedAtStart /\ swFetches[i].put = "stored"
    /\ swFetches[j].cachedAtStart /\ swFetches[j].resp = "cached"

\* C16: a request that is not a GET, or that has a browser-extension URL,
\* causes no cache read or write and is not answered by the handler; a cache
\* write is made only for a network response with status 200 and type
\* "basic"; any other network response is returned as it is and not stored.
C16_PassThroughAndStorable ==
  \A r \in Handled :
    /\ PassedThrough(r)
         => (r.trail = <<>> /\ r.resp = "passthrough" /\ r.put = "none")
    /\ r.put # "none" => (r.net.status = 200 /\ r.net.type = "basic")
    /\ (r.stage = "done" /\ r.net # NoResponse /\ r.net # NetworkFailure
          /\ ~(r.net.status = 200 /\ r.net.type = "basic"))
         => (r.resp = "network" /\ r.put = "none" /\ Net(r) = 1)

\* A POST has been passed through and a 404 has been returned unstored.
C16_Witness ==
  /\ \E r \in Handled : r.method = "POST" /\ r.resp = "passthrough"
  /\ \E r \in Handled : r.net.status = 404 /\ r.resp = "network"

\* C17: for a GET of an audio path, the network is contacted only after the
\* full-URL match and then the path-only match have been made and have
\* missed, and a path-only hit is answered from the cache without a network
\* fetch.
C17_PathMatchBeforeNetwork ==
  /\ [](\A r \in Handled :
          (~PassedThrough(r) /\ IsAudioFile(r.url)) =>
            /\ (Net(r) > 0 \/ r.stage = "fetch") =>
                 (Len(r.trail) >= 2 /\ r.trail[1] = "match"
                    /\ r.trail[2] = "pathMatch")
            /\ r.resp = "pathCached" => Net(r) = 0)
  /\ [][\A i \in 1..Len(swFetches) :
          (/\ swFetches[i].stage = "pathMatch"
           /\ CacheMatch(swCaches, StaticCache, Pathname(swFetches[i].url))
           /\ swFetches'[i] # swFetches[i])
            => (swFetches'[i].resp = "pathCached" /\ Net(swFetches'[i]) = 0)]_vars

\* An audio request with a query string has missed the full-URL match and has
\* been answered by the path-only match.
C17_Witness ==
  \E r \in Handled :
    /\ r.url = "/audio/a01.mp3?v=2"
    /\ r.trail = <<"match", "pathMatch">>
    /\ r.resp = "pathCached"

\* C18: an intercepted GET whose network fetch failed is answered with the
\* cached index.html when its URL contains .html and with the 408 response
\* otherwise.
C18_AnsweredOnNetworkFailure ==
  \A r \in Handled :
    (r.stage = "done" /\ r.net = NetworkFailure) =>
      r.resp = (IF HasHtml(r.url) THEN "index" ELSE "408")

\* C19: the installation does not fail, and once it is over skipWaiting has
\* been invoked.
C19_InstallCompletes ==
  /\ swLife.phase # "failed"
  /\ swLife.phase \in {"installed", "activating", "activated"} => swLife.skipWaiting

\* C20: once the clients are claimed no deletion is pending and no cache but
\* the two of the current version exists; and no step of the activation
\* changes or removes one of the two current caches.
C20_ActivateCleansUp ==
  /\ [](swLife.claimed =>
          /\ swLife.pendingDeletes = {}
          /\ DOMAIN swCaches \subseteq {StaticCache, CacheName})
  /\ [][(swLife.phase \in {"installed", "activating"}) =>
          \A n \in {StaticCache, CacheName} :
            n \in DOMAIN swCaches =>
              (n \in DOMAIN swCaches' /\ swCaches'[n] = swCaches[n])]_vars

\* The clients are claimed after an old cache has been deleted, with the
\* cache of the current version still there.
C20_Witness ==
  /\ swLife.claimed
  /\ OldCache \in swLife.deleted
  /\ CacheName \in DOMAIN swCaches
  /\ StaticCache \in DOMAIN swCaches

\* ----------------------------------------------- oscillator with envelope
\* The step is a playNote or playSustainedNote call on the oscillator.
PlayCall == oscCalls' # oscCalls /\ oscLast'.fn \in {"playNote", "playSustainedNote"}

\* C21: a playNote or playSustainedNote call always returns to its caller,
\* with null or with the id of a registered instance; a call in which the
\* audio graph raised an exception returns null and leaves the registry and
\* the table of sustained notes as they were.
C21_NeverThrows ==
  [][PlayCall =>
       /\ oscLast'.result # NullId =>
            \/ MapHas(osc'.activeSources, oscLast'.result)
            \/ \E e \in Entries(osc'.activeSustainedNotes) : e.id = oscLast'.result
       /\ oscLast'.cause \in {"platform", "RangeError"} =>
            /\ oscLast'.result = NullId
            /\ osc'.activeSources = osc.activeSources
            /\ osc'.activeSustainedNotes = osc.activeSustainedNotes]_vars

\* A playNote call whose envelope raised has returned null while another
\* instance is registered.
C21_Witness ==
  /\ oscLast.fn = "playNote"
  /\ oscLast.cause = "RangeError"
  /\ oscLast.result = NullId
  /\ Len(osc.activeSources) = 1

\* C22: playNote of the oscillator returns an instance id for every note
\* "1".."19" whatever the volume, sustain level, waveform and pitch that were
\* set, as long as the platform creates the nodes.
C22_PlaysEveryValidNote ==
  (/\ oscLast.fn = "playNote"
   /\ oscLast.noteName \in ValidNames
   /\ oscLast.cause # "platform") => oscLast.result # NullId

\* C23: a play request for a name outside "1".."19" returns null and
\* registers no instance.
C23_UnknownNoteRejected ==
  [][(PlayCall /\ oscLast'.noteName \notin ValidNames) =>
       /\ oscLast'.result = NullId
       /\ osc'.activeSources = osc.activeSources
       /\ osc'.activeSustainedNotes = osc.activeSustainedNotes]_vars

\* The frequency of note "i" in the oscillator's current configuration.
Frequency(i) ==
  GetFrequencyForNote(NoteName(i), osc.currentPitch, osc.options.type, oscConfig)

\* C24: in every configuration of pitch and waveform, with the frequency
\* table and with the equal-tempered computation, the frequency of note
\* "i+1" is greater than the frequency of note "i", for "1".."19".
C24_FrequenciesIncrease == \A i \in 1..18 : Frequency(i) < Frequency(i + 1)

\* A note has been played at the high pitch with a sine wave, its frequency
\* computed without the table.
C24_Witness ==
  /\ ~oscConfig
  /\ osc.currentPitch = "high"
  /\ osc.options.type = "sine"
  /\ oscLast.fn = "playNote"
  /\ oscLast.noteName = NoteName(19)
  /\ oscLast.result # NullId

\* C25: the envelope operations of every registered instance were issued at
\* non-decreasing times, none before the instance's trigger time.
C25_EnvelopeInTimeOrder ==
  \A e \in Entries(osc.activeSources) :
    /\ \A i \in 1..(Len(e.ops) - 1) : e.ops[i].time <= e.ops[i + 1].time
    /\ \A i \in 1..Len(e.ops) : e.ops[i].time >= e.startTime

\* C26: a setter changes no registered instance and no sustained note, and a
\* sustained note is released over the duration that was configured when it
\* was started.
C26_SettersAffectLaterSoundsOnly ==
  /\ []((oscLast.fn = "stopSustainedNote" /\ oscLast.cause = "none") =>
          oscLast.ops[3].time - oscLast.ops[1].time = oscLast.startDuration)
  /\ [][(/\ oscCalls' # oscCalls
         /\ oscLast'.fn \in {"setType", "setVolume", "setDuration", "setPitch",
                             "setADSREnvelope"}) =>
          /\ osc'.activeSources = osc.activeSources
          /\ osc'.activeSustainedNotes = osc.activeSustainedNotes]_vars

\* ------------------------------------------------------ failing sample load
\* The step is the failure of the awaited load of suspended call p.
LoadFails(p) ==
  /\ p \in pending /\ p \notin pending'
  /\ ~\E e \in Entries(activeSources') : e.seq = p.seq

\* C27: a play request whose fetch or decode fails registers nothing,
\* changes the registry in no way when it fails, and has not evicted an
\* instance of another note.
C27_FailedLoadAffectsNoOtherNote ==
  [][\A p \in pending :
       LoadFails(p) =>
         /\ activeSources' = activeSources
         /\ oscSources' = oscSources
         /\ events' = events
         /\ p.evictedNote \in {"none", p.note}]_vars

\* ------------------------------------------------------------ batch preload
\* The files the manager in use holds decoded.
Loaded == IF manager = "legacy" THEN audioBuffers ELSE loadedFiles

\* The step is the failure of the load of f while a batch waits for it.
BatchFileFails(f) ==
  /\ f \in preload.awaited
  /\ f \in preload'.failed \ preload.failed

\* C28: when the load of one file of a batch fails, the batch goes on
\* waiting for its other files, the file is not marked loaded and is no
\* longer loading (so a later load fetches it); when the batch resolves
\* every file of it that did not fail is loaded; and every batch resolves.
C28_PreloadSurvivesFailure ==
  /\ [][\A f \in Files \cup Notes :
          BatchFileFails(f) =>
            /\ preload'.isLoading
            /\ preload'.awaited = preload.awaited \ {f}
            /\ f \notin Loaded'
            /\ f \notin loadingPromises']_vars
  /\ [][preload'.resolved > preload.resolved =>
          (preload.batch \ preload.failed) \subseteq Loaded']_vars
  /\ (preload.isLoading ~> ~preload.isLoading)

\* A batch has resolved in which one file failed and the other was loaded,
\* and the failed file is being fetched again.
C28_Witness ==
  /\ preload.resolved = 1
  /\ preload.failed = {"a01"}
  /\ "a02" \in loadedFiles
  /\ "a01" \in loadingPromises

\* ------------------------------------------------------------- stop paths
\* The first operation of a stop on the gain is cancelScheduledValues.
CancelsFirst(ops) == Len(ops) > 0 /\ ops[1].op = "cancelScheduledValues"

\* C29: every stop cancels the scheduled automation of the gain before it
\* applies its fade: the fade stopNote gives an instance of the registry,
\* and the release stopSustainedNote gives a sustained note.
C29_StopCancelsFirst ==
  /\ \A ev \in events : ev.kind = "fade" => CancelsFirst(FadeOps)
  /\ (oscLast.fn = "stopSustainedNote" /\ oscLast.cause = "none") =>
       CancelsFirst(oscLast.ops)

\* ------------------------------------------------------ rejected triggers
\* The step is a playNote call that the debounce check rejects.
Rejected ==
  /\ nseq' # nseq
  /\ lastCall'.fn \in {"controller", "legacy"}
  /\ lastCall'.gated /\ lastCall'.engine = "none" /\ lastCall'.result = "null"

\* C30: a trigger rejected by the debounce check changes neither the
\* registries nor the last-trigger times, sets and cancels no timer, and
\* starts no load.
C30_RejectedTriggerIgnored ==
  [][Rejected =>
       /\ activeSources' = activeSources
       /\ oscSources' = oscSources
       /\ lastPlayTimes' = lastPlayTimes
       /\ events' = events
       /\ pending' = pending
       /\ audioBuffers' = audioBuffers]_vars

\* A trigger of a note has been rejected within the window while an
\* instance is registered.
C30_Witness ==
  /\ lastCall.fn = "controller"
  /\ lastCall.inWindow
  /\ lastCall.engine = "none" /\ lastCall.result = "null"
  /\ Len(activeSources) > 0

\* --------------------------------------------------------- stopNote's fade
\* The instances of the sample registry that the step removes.
RemovedBySeq ==
  {e \in Entries(activeSources) :
     ~\E x \in Entries(activeSources') : x.seq = e.seq}

\* C31: stopNote(n) removes exactly the instances of n that are registered
\* when it is called: the cleanup its 25 ms timer runs removes the instance
\* the timer was set for, which is an instance of n triggered before that
\* timer was set, and no other instance.
C31_StopNoteRemovesExactly ==
  [][\A ev \in events \ events' :
       ev.kind = "fade" => \A e \in RemovedBySeq : e.seq = ev.seq]_vars

\* ------------------------------------------------------ envelope parameters
Waveforms == {"sine", "square", "triangle", "sawtooth"}

\* The options of an Oscillator are in range (volume and sustain level in
\* hundredths, times in ms).
InRange(o) ==
  /\ o.type \in Waveforms
  /\ o.volume \in 0..100 /\ o.sustain \in 0..100
  /\ o.duration >= 100
  /\ o.attack >= 0 /\ o.decay >= 0 /\ o.release >= 0

C33_OneActiveScheme ==
  /\ [](currentScheme \in Schemes /\ notesMap = audioSchemes[currentScheme])
  /\ [](currentTimbre \in {"audio", "golden", "oscillator"})
  /\ [][timbreEvents' # timbreEvents =>
          /\ currentTimbre' = "golden" => currentScheme' = "golden"
          /\ currentTimbre' = "audio" => currentScheme' = "popular"
          /\ currentTimbre' = "oscillator" =>
               currentScheme' = currentScheme /\ notesMap' = notesMap]_vars
  /\ [][currentTimbre' # currentTimbre => timbreEvents' = timbreEvents + 1]_vars

\* --------------------------------------------------------- unknown scheme
\* The step is a switchAudioScheme call with an id that is no scheme.
SwitchToUnknown ==
  \E s \in UnknownSchemes :
    CoreSwitchAudioScheme(s) \/ LegacySwitchAudioScheme(s)

\* C39: switchAudioScheme with an unknown scheme id returns false and
\* changes nothing: the current scheme, the notes map and the decoded
\* samples (of the loader and of the audio.js manager) stay as they were, and
\* so do the loads in progress.
C39_UnknownSchemeChangesNothing ==
  [][SwitchToUnknown =>
       /\ switchResult' = "false"
       /\ currentScheme' = currentScheme
       /\ notesMap' = notesMap
       /\ loaderBuffers' = loaderBuffers
       /\ audioBuffers' = audioBuffers
       /\ loadedFiles' = loadedFiles
       /\ loadingPromises' = loadingPromises]_vars
\* The values of seq are percentages that never decrease.
Percentages(seq) ==
  /\ \A i \in 1..Len(seq) : seq[i] \in 0..100
  /\ \A i \in 1..(Len(seq) - 1) : seq[i] <= seq[i + 1]

\* C34: the values a preload passes to its progress callback are integers
\* in 0..100 and never decrease, and when the preload is over the last value
\* it has passed is 100, whether its files loaded or failed, whether the
\* context could be resumed or not, with and without a context or a loader.
C34_ProgressEndsAtHundred ==
  /\ Percentages(preload.reports)
  /\ Percentages(preload.quick)
  /\ preload.quick # <<>> => preload.quick[Len(preload.quick)] = 100
  /\ (preload.phase = "idle" /\ preload.reports # <<>>) =>
       preload.reports[Len(preload.reports)] = 100

\* A preload of the core manager is over, one of its files failed, and the
\* callback got 10, the two mapped values of the loader, and 100.
C34_Witness ==
  /\ preload.phase = "idle"
  /\ preload.caller = "manager"
  /\ preload.failed # {}
  /\ preload.reports = <<10, 50, 90, 100>>

\* --------------------------------------------------------- loading state
\* The show-piano button refuses to open the piano.
GateBlocked ==
  LET st == preload.loadingState IN
  /\ st.exists
  /\ \/ st.hasStarted /\ (st.isLoading \/ st.progress < 100)
     \/ st.isLoading

FetchSettles(f) == fetching'[f] < fetching[f]

C37_LoadedHasBuffer ==
  \A f \in loadedFiles :
    /\ f \in loaderBuffers
    /\ f \notin loadingPromises
    /\ fetching[f] = 0

\* ------------------------------------------------------ release of a note
\* Node k is in the Sustained-Note Table.
InTable(k) ==
  \E i \in 1..Len(activeSustainedNotes) : activeSustainedNotes[i].node = k

\* C36: an oscillator node that stopSustainedNote has taken out of the table
\* is stopped exactly once: it has either its one release timer pending or
\* its one stop behind it; the timer is set for the release time after the
\* call, the stop happens when it is due and not before, and it happens
\* (within the clock's range), also when the note has been played again in
\* the meantime.
C36_RemovedNodeStoppedOnce ==
  /\ [](\A k \in 1..Len(sustainNodes) :
          IF InTable(k)
            THEN sustainNodes[k].stops = 0 /\ ReleaseTimers(k) = {}
            ELSE sustainNodes[k].stops + Cardinality(ReleaseTimers(k)) = 1)
  /\ [][/\ \A ev \in events' \ events :
             ev.kind = "release" => ev.due = now + ReleaseDelay
        /\ \A k \in 1..Len(sustainNodes) :
             sustainNodes'[k].stops > sustainNodes[k].stops =>
               \E ev \in ReleaseTimers(k) : ev.due <= now /\ ev \notin events']_vars
  /\ \A k \in 1..MaxCalls :
       (\E ev \in ReleaseTimers(k) : ev.due <= MaxTime)
         ~> (k <= Len(sustainNodes) /\ sustainNodes[k].stops = 1)

\* The first node of a note was stopped by its timer at tick 3, the earliest
\* possible, and the note had been played again, on a second node that is
\* still in the table, before that timer was due.
C36_Witness ==
  /\ now = 3
  /\ Len(sustainNodes) = 2
  /\ sustainNodes[1].stops = 1
  /\ sustainNodes[2].noteName = sustainNodes[1].noteName
  /\ InTable(2)
  /\ \E i \in 1..Len(activeSustainedNotes) :
       activeSustainedNotes[i].node = 2 /\ activeSustainedNotes[i].id[3] < 3

\* ------------------------------------------------------------ held notes
\* Some finger is holding note n.
Held(n) == \E t \in TouchIds : activeTouches[t] = n

\* C35: with the sustain switch on and no playNote call parked at an await,
\* every note in the Sustained-Note Table is held by a finger: a note whose
\* touch has ended has no entry.
C35_NoNoteLeftSounding ==
  (sustainToggle /\ pending = {}) =>
    \A i \in 1..Len(activeSustainedNotes) :
      Held(activeSustainedNotes[i].noteName)

====
